---------------------------- MODULE Spec2Model ----------------------------
(***************************************************************************)
(* The rate limiting and caching layer of the Telegram mail bot:           *)
(*   src/src/bot/utils/rate_limiter.py  TokenBucket,                       *)
(*                                      SlidingWindowRateLimiter,          *)
(*                                      RateLimiter, check_rate_limits     *)
(*   src/src/bot/utils/cache.py         MemoryCache, _cache                *)
(*   src/src/services/mailsac.py        MailsacService                     *)
(*   src/src/bot/handlers/              the handlers that read the mailbox *)
(*                                                                         *)
(* Time.  time.time() is modelled by the clock `now`, counted in ticks of  *)
(* 1/SubSec second, and it never runs backwards.  Durations the code holds *)
(* in seconds (window_seconds, ttl, retry_after) stay in seconds and are   *)
(* converted where the code mixes them with a timestamp.                   *)
(*                                                                         *)
(* Tokens.  A bucket's refill_rate is the rational refill_num / RateDen    *)
(* tokens per second, so a bucket's float `tokens` is always a multiple of *)
(* 1/TokUnit token, TokUnit = SubSec * RateDen: the model stores           *)
(* tokens * TokUnit, an integer, and the arithmetic is exact.              *)
(***************************************************************************)
EXTENDS Integers, Sequences, FiniteSets, TLC

VARIABLES
    now,             \* time.time(), in ticks
    limiter,         \* a SlidingWindowRateLimiter on its own
    calls,           \* history: per key, the is_allowed calls made, <<t, ok>>
    bucket,          \* a TokenBucket on its own
    drained_at,      \* history: the tick a consume left the bucket empty, or -1
    avail,           \* history: the last available_tokens() call, <<t, ret>>
    rate_limiter,    \* _rate_limiter, the process-wide RateLimiter
    outcome,         \* history: the last check call, what it did and how it ended
    first_at,        \* history: the tick of user 42's first call, or -1
    mem_cache,       \* a MemoryCache
    written,         \* history: per key, the set that stored its entry, or NoSet
    plain,           \* history: only new keys were set so far, and none expired
    evictions,       \* history: while plain, what _evict_lru took out
    overwrite,       \* history: the set that has just overwritten a stored key
    services,        \* the MailsacService objects constructed so far
    call,            \* per task, the MailsacService call under way, or the last one
    handlers,        \* per task, the handler it runs, or ran last
    passes           \* history: the check_rate_limits calls a handler passed

swVars == <<limiter, calls>>
tbVars == <<bucket, drained_at, avail>>
rlVars == <<rate_limiter, outcome, first_at>>
mcVars == <<mem_cache, written, plain, evictions, overwrite>>
msVars == <<services, call>>
hdVars == <<handlers, passes>>
vars == <<now, swVars, tbVars, rlVars, mcVars, msVars, hdVars>>

----------------------------------------------------------------------------
(* Bounds of the model *)

SubSec == 2          \* clock ticks per second
MaxTime == 5         \* the clock stops at this tick
MaxRequests == 2     \* max_requests of the limiter on its own: 1..MaxRequests
MaxWindow == 2       \* window_seconds of the limiter on its own: 1..MaxWindow
MaxCalls == 4        \* is_allowed calls made on the limiter on its own
BucketMaxTime == 8   \* the clock of the bucket on its own stops at this tick
MaxCapacity == 2     \* capacity of the bucket on its own: 1..MaxCapacity
MaxRate == 2         \* its refill_rate: (1..MaxRate) / RateDen tokens a second
MaxConsume == 2      \* consume(n) and time_until_available(n): n in 1..MaxConsume
RateDen == 2         \* denominator of the refill rates
SmallUserLimit == 2  \* the scaled-down RateLimiter: requests per window and user
SmallGlobalLimit == 3    \* ... requests per window, all users
SmallApiLimit == 1   \* ... requests per window and service
SmallWindow == 1     \* ... window_seconds
SmallBurst == 1      \* ... capacity of a user's bucket
LimMaxTime == 3      \* ... its clock stops at this tick
MaxChecks == 4       \* ... check_rate_limits calls made
CacheMaxTime == 3    \* the cache's clock stops at this tick
MailStepSec == 60    \* the mailbox service: the clock moves by this many seconds
MailMaxSec == 120    \* ... and stops at this second
MailCacheSize == 1   \* ... max_size of the scaled-down _cache
MaxInbox == 2        \* ... records the provider returns for one inbox
MaxMailCalls == 2    \* ... calls made on the service
MaxServices == 2     \* ... MailsacService objects there are
ReqMaxSec == 8       \* one request and its retries: the clock stops at this second
HandMaxTime == 3     \* the handlers: the clock stops at this tick
MaxHandled == 3      \* ... updates handled
SvcStepSec == 30     \* the service called by two tasks: the clock moves by this many seconds
SvcMaxSec == 90      \* ... and stops at this second
MaxServiceCalls == 3 \* ... calls made on the service
StepSec == 30        \* user 42's scenario: the clock moves by this many seconds
U42MaxSec == 90      \* ... and stops at this second

(* Constants of the program *)

USER_RATE_LIMIT == 30
GLOBAL_RATE_LIMIT == 1000
MAX_REQUESTS_PER_MINUTE == 60
WINDOW_SECONDS == 60
BURST_CAPACITY == 10
MAX_RETRIES == 3
RETRY_BACKOFF == 2
MESSAGES_TTL == 60
CONTENT_TTL == 300
OK == 200
UNAUTHORIZED == 401
FORBIDDEN == 403
NOT_FOUND == 404
TOO_MANY_REQUESTS == 429
INTERNAL_SERVER_ERROR == 500
SERVICE_UNAVAILABLE == 503

TokUnit == SubSec * RateDen

Keys == {"k1", "k2"}

----------------------------------------------------------------------------
(* Helpers *)

Min(a, b) == IF a <= b THEN a ELSE b

Max(a, b) == IF a >= b THEN a ELSE b

\* Python's int() of the rational num/den (den > 0): truncation toward zero
PyInt(num, den) == IF num >= 0 THEN num \div den ELSE -((-num) \div den)

\* deque.popleft() while the head is older than window_start
RECURSIVE PopOld(_, _)
PopOld(q, window_start) ==
    IF q # <<>> /\ Head(q) < window_start
    THEN PopOld(Tail(q), window_start)
    ELSE q

----------------------------------------------------------------------------
(* SlidingWindowRateLimiter *)

\* __init__: requests is a defaultdict(deque); a key never used reads as the
\* empty deque, which is what a function with <<>> everywhere gives
SlidingWindowRateLimiter(max_requests, window_seconds, keys) ==
    [max_requests |-> max_requests,
     window_seconds |-> window_seconds,
     requests |-> [k \in keys |-> <<>>]]

is_allowed_charging(self, key, t) ==
    LET window_start == t - self.window_seconds * SubSec
        request_times == PopOld(self.requests[key], window_start)
    IN  IF Len(request_times) <= self.max_requests
        THEN [self |-> [self EXCEPT !.requests[key] = Append(request_times, t)],
              ret |-> TRUE]
        ELSE [self |-> [self EXCEPT !.requests[key] = request_times],
              ret |-> FALSE]

is_allowed_unpruned(self, key, t) ==
    LET window_start == t - self.window_seconds * SubSec
        request_times == self.requests[key]
    IN  IF Len(PopOld(request_times, window_start)) < self.max_requests
        THEN [self |-> [self EXCEPT !.requests[key] = Append(request_times, t)],
              ret |-> TRUE]
        ELSE [self |-> self, ret |-> FALSE]

is_allowed_recording_rejected(self, key, t) ==
    LET window_start == t - self.window_seconds * SubSec
        request_times == PopOld(self.requests[key], window_start)
    IN  [self |-> [self EXCEPT !.requests[key] = Append(request_times, t)],
         ret |-> Len(request_times) < self.max_requests]

is_allowed(self, key, t) ==
    LET window_start == t - self.window_seconds * SubSec
        request_times == PopOld(self.requests[key], window_start)
    IN  IF Len(request_times) < self.max_requests
        THEN [self |-> [self EXCEPT !.requests[key] = Append(request_times, t)],
              ret |-> TRUE]
        ELSE [self |-> [self EXCEPT !.requests[key] = request_times],
              ret |-> FALSE]

get_remaining_requests(self, key, t) ==
    LET window_start == t - self.window_seconds * SubSec
        request_times == PopOld(self.requests[key], window_start)
    IN  [self |-> [self EXCEPT !.requests[key] = request_times],
         ret |-> Max(0, self.max_requests - Len(request_times))]

\* in ticks; 0.0 when the key has no request
get_reset_time(self, key) ==
    LET request_times == self.requests[key]
    IN  IF request_times = <<>>
        THEN 0
        ELSE Head(request_times) + self.window_seconds * SubSec

----------------------------------------------------------------------------
(* TokenBucket *)

\* __init__ at time t; refill_rate = refill_num / RateDen
TokenBucket(capacity, refill_num, t) ==
    [capacity |-> capacity,
     refill_num |-> refill_num,
     tokens |-> capacity * TokUnit,
     last_refill |-> t]

\* only whole tokens are added
_refill_whole_tokens(self, t) ==
    LET elapsed == t - self.last_refill
        tokens_to_add == ((elapsed * self.refill_num) \div TokUnit) * TokUnit
    IN  [self EXCEPT !.tokens = Min(self.capacity * TokUnit, @ + tokens_to_add),
                     !.last_refill = t]

\* elapsed ticks * refill_num is elapsed seconds * refill_rate, in 1/TokUnit
_refill(self, t) ==
    LET elapsed == t - self.last_refill
        tokens_to_add == elapsed * self.refill_num
    IN  [self EXCEPT !.tokens = Min(self.capacity * TokUnit, @ + tokens_to_add),
                     !.last_refill = t]

\* the tokens are taken without the test
consume_unchecked(self, tokens, t) ==
    LET b == _refill(self, t)
    IN  [self |-> [b EXCEPT !.tokens = @ - tokens * TokUnit], ret |-> TRUE]

consume(self, tokens, t) ==
    LET b == _refill(self, t)
    IN  IF b.tokens >= tokens * TokUnit
        THEN [self |-> [b EXCEPT !.tokens = @ - tokens * TokUnit], ret |-> TRUE]
        ELSE [self |-> b, ret |-> FALSE]

\* int(self.tokens)
available_tokens(self, t) ==
    LET b == _refill(self, t)
    IN  [self |-> b, ret |-> PyInt(b.tokens, TokUnit)]

\* the float returned is num / den seconds
time_until_available(self, tokens, t) ==
    LET b == _refill(self, t)
    IN  IF b.tokens >= tokens * TokUnit
        THEN [self |-> b, num |-> 0, den |-> 1]
        ELSE [self |-> b,
              num |-> tokens * TokUnit - b.tokens,
              den |-> b.refill_num * SubSec]

----------------------------------------------------------------------------
(* RateLimiter and check_rate_limits *)

Users == {"42", "7"}
Services == {"mailsac"}
None == "None"

user_key(user_id) == "user:" \o user_id
api_key(service) == "api:" \o service

\* __init__; the limits and the bucket's two literals are its parameters here
RateLimiter(user_limit, global_limit, api_limit, window_seconds, capacity, refill_num) ==
    [user_limiter |->
        SlidingWindowRateLimiter(user_limit, window_seconds,
                                 {user_key(u) : u \in Users}),
     global_limiter |->
        SlidingWindowRateLimiter(global_limit, window_seconds, {"global"}),
     api_limiter |->
        SlidingWindowRateLimiter(api_limit, window_seconds,
                                 {api_key(sv) : sv \in Services}),
     user_buckets |-> <<>>,
     burst_capacity |-> capacity,
     burst_refill_num |-> refill_num]

\* the dict user_buckets with user_id set to b
PutBucket(user_buckets, user_id, b) ==
    [u \in (DOMAIN user_buckets) \cup {user_id} |->
        IF u = user_id THEN b ELSE user_buckets[u]]

_get_user_bucket(self, user_id, t) ==
    IF user_id \notin DOMAIN self.user_buckets
    THEN [self EXCEPT !.user_buckets =
             PutBucket(@, user_id,
                       TokenBucket(self.burst_capacity, self.burst_refill_num, t))]
    ELSE self

\* what a check method hands back: the limiter after it, and the RateLimitError
\* it raised, if any
Passed(self) == [self |-> self, raised |-> FALSE, limit_type |-> "", retry_after |-> 0]

RateLimitError(self, limit_type, retry_after) ==
    [self |-> self, raised |-> TRUE, limit_type |-> limit_type,
     retry_after |-> retry_after]

\* the bucket is asked before the window
check_user_rate_limit_bucket_first(self, user_id, t) ==
    LET s2 == _get_user_bucket(self, user_id, t)
        c == consume(s2.user_buckets[user_id], 1, t)
        s3 == [s2 EXCEPT !.user_buckets[user_id] = c.self]
    IN  IF ~c.ret
        THEN LET d == time_until_available(c.self, 1, t)
             IN  RateLimitError(s3, "burst", PyInt(d.num, d.den))
        ELSE LET w == is_allowed(s3.user_limiter, user_key(user_id), t)
                 s1 == [s3 EXCEPT !.user_limiter = w.self]
             IN  IF ~w.ret
                 THEN RateLimitError(s1, "user",
                          PyInt(get_reset_time(s1.user_limiter, user_key(user_id)) - t,
                                SubSec))
                 ELSE Passed(s1)

\* a request the bucket rejects gives its place in the window back
check_user_rate_limit_refunding(self, user_id, t) ==
    LET w == is_allowed(self.user_limiter, user_key(user_id), t)
        s1 == [self EXCEPT !.user_limiter = w.self]
    IN  IF ~w.ret
        THEN RateLimitError(s1, "user",
                 PyInt(get_reset_time(s1.user_limiter, user_key(user_id)) - t, SubSec))
        ELSE LET s2 == _get_user_bucket(self, user_id, t)
                 c == consume(s2.user_buckets[user_id], 1, t)
                 s3 == [s2 EXCEPT !.user_buckets[user_id] = c.self]
             IN  IF ~c.ret
                 THEN LET d == time_until_available(c.self, 1, t)
                      IN  RateLimitError(s3, "burst", PyInt(d.num, d.den))
                 ELSE Passed([s3 EXCEPT !.user_limiter = w.self])

check_user_rate_limit(self, user_id, t) ==
    LET w == is_allowed(self.user_limiter, user_key(user_id), t)
        s1 == [self EXCEPT !.user_limiter = w.self]
    IN  IF ~w.ret
        THEN RateLimitError(s1, "user",
                 PyInt(get_reset_time(s1.user_limiter, user_key(user_id)) - t, SubSec))
        ELSE LET s2 == _get_user_bucket(s1, user_id, t)
                 c == consume(s2.user_buckets[user_id], 1, t)
                 s3 == [s2 EXCEPT !.user_buckets[user_id] = c.self]
             IN  IF ~c.ret
                 THEN LET d == time_until_available(c.self, 1, t)
                      IN  RateLimitError(s3, "burst", PyInt(d.num, d.den))
                 ELSE Passed(s3)

check_global_rate_limit(self, t) ==
    LET w == is_allowed(self.global_limiter, "global", t)
        s1 == [self EXCEPT !.global_limiter = w.self]
    IN  IF ~w.ret
        THEN RateLimitError(s1, "global",
                 PyInt(get_reset_time(s1.global_limiter, "global") - t, SubSec))
        ELSE Passed(s1)

\* the grant is given and its timestamp lost
check_api_rate_limit_unrecorded(self, service, t) ==
    LET w == is_allowed(self.api_limiter, api_key(service), t)
        s1 == [self EXCEPT !.api_limiter = w.self]
    IN  IF ~w.ret
        THEN RateLimitError(s1, api_key(service),
                 PyInt(get_reset_time(s1.api_limiter, api_key(service)) - t, SubSec))
        ELSE Passed(self)

check_api_rate_limit(self, service, t) ==
    LET w == is_allowed(self.api_limiter, api_key(service), t)
        s1 == [self EXCEPT !.api_limiter = w.self]
    IN  IF ~w.ret
        THEN RateLimitError(s1, api_key(service),
                 PyInt(get_reset_time(s1.api_limiter, api_key(service)) - t, SubSec))
        ELSE Passed(s1)

(* The try block of check_rate_limits.  `fault` is the place where an      *)
(* exception that is no RateLimitError is raised ("none": nowhere): on     *)
(* entry of the global, the user or the per-service check.  exc is the     *)
(* exception the block ends with.                                          *)
Faults == {"none", "global", "user", "api"}

Ended(r) ==
    [self |-> r.self, exc |-> IF r.raised THEN "RateLimitError" ELSE "none",
     limit_type |-> r.limit_type, retry_after |-> r.retry_after]

Faulted(self) ==
    [self |-> self, exc |-> "Exception", limit_type |-> "", retry_after |-> 0]

\* the per-user check is made before the global one
try_block_user_first(self, user_id, service, t, fault) ==
    IF fault = "user" THEN Faulted(self) ELSE
    LET u == check_user_rate_limit(self, user_id, t)
    IN  IF u.raised THEN Ended(u) ELSE
        IF fault = "global" THEN Faulted(u.self) ELSE
        LET g == check_global_rate_limit(u.self, t)
        IN  IF g.raised THEN Ended(g) ELSE
            IF service = None THEN Ended(g) ELSE
            IF fault = "api" THEN Faulted(g.self) ELSE
            Ended(check_api_rate_limit(g.self, service, t))

try_block(self, user_id, service, t, fault) ==
    IF fault = "global" THEN Faulted(self) ELSE
    LET g == check_global_rate_limit(self, t)
    IN  IF g.raised THEN Ended(g) ELSE
        IF fault = "user" THEN Faulted(g.self) ELSE
        LET u == check_user_rate_limit(g.self, user_id, t)
        IN  IF u.raised THEN Ended(u) ELSE
            IF service = None THEN Ended(u) ELSE
            IF fault = "api" THEN Faulted(u.self) ELSE
            Ended(check_api_rate_limit(u.self, service, t))

\* `except Exception` comes first and takes the RateLimitError too
except_clauses_broad(exc) == "none"

\* the exception that leaves check_rate_limits: a RateLimitError is raised
\* again, any other is logged and dropped
except_clauses(exc) ==
    IF exc = "RateLimitError" THEN "RateLimitError" ELSE "none"

check_rate_limits(self, user_id, service, t, fault) ==
    LET b == try_block(self, user_id, service, t, fault)
    IN  [self |-> b.self, exc |-> b.exc, propagated |-> except_clauses(b.exc),
         limit_type |-> b.limit_type, retry_after |-> b.retry_after]

----------------------------------------------------------------------------
(* MemoryCache *)

CacheKeys == {"a", "b", "c"}
Values == {"v1", "v2"}
Ttls == {1, 2}                          \* the ttl of a set, in seconds
MaxSize == Cardinality(CacheKeys) - 1   \* max_size is in 1..MaxSize: one key more fits in no cache

\* a dict with no key
EmptyDict == [k \in {} |-> None]

\* dict.pop(key, None) and dict[key] = x, on the dict `cache`
Pop(d, key) == [k \in (DOMAIN d) \ {key} |-> d[k]]

Put(d, key, x) == [k \in (DOMAIN d) \cup {key} |-> IF k = key THEN x ELSE d[k]]

(* _access_times is a dict read in insertion order by min(): it is the     *)
(* sequence of its <<key, time>> items, oldest insertion first.            *)
RECURSIVE OrdPop(_, _)
OrdPop(items, key) ==
    IF items = <<>> THEN <<>>
    ELSE IF Head(items)[1] = key THEN Tail(items)
    ELSE <<Head(items)>> \o OrdPop(Tail(items), key)

OrdPut(items, key, t) ==
    IF \E i \in 1..Len(items) : items[i][1] = key
    THEN [i \in 1..Len(items) |->
             IF items[i][1] = key THEN <<key, t>> ELSE items[i]]
    ELSE Append(items, <<key, t>>)

\* d[key]
AccessOf(items, key) ==
    LET i == CHOOSE i \in 1..Len(items) : items[i][1] = key
    IN  items[i][2]

\* min(d.keys(), key=lambda k: d[k]): the first of the smallest
OrdMin(items) ==
    LET i == CHOOSE i \in 1..Len(items) :
                 /\ \A j \in 1..Len(items) : items[i][2] <= items[j][2]
                 /\ \A j \in 1..(i - 1) : items[j][2] > items[i][2]
    IN  items[i][1]

\* __init__
MemoryCache(max_size) ==
    [max_size |-> max_size, cache |-> EmptyDict, access_times |-> <<>>]

_is_expired(expiry_time, t) == t > expiry_time

RECURSIVE PopAll(_, _)
PopAll(self, keys) ==
    IF keys = {} THEN self
    ELSE LET key == CHOOSE k \in keys : TRUE
         IN  PopAll([self EXCEPT !.cache = Pop(@, key),
                                 !.access_times = OrdPop(@, key)],
                    keys \ {key})

_evict_expired(self, t) ==
    LET expired_keys == {key \in DOMAIN self.cache : t > self.cache[key][2]}
    IN  PopAll(self, expired_keys)

\* max() for min(): the last of the largest
OrdMax(items) ==
    LET i == CHOOSE i \in 1..Len(items) :
                 /\ \A j \in 1..Len(items) : items[i][2] >= items[j][2]
                 /\ \A j \in (i + 1)..Len(items) : items[j][2] < items[i][2]
    IN  items[i][1]

\* the most recently used key goes
RECURSIVE _evict_mru(_)
_evict_mru(self) ==
    IF Cardinality(DOMAIN self.cache) >= self.max_size
    THEN LET lru_key == OrdMax(self.access_times)
         IN  _evict_mru([self EXCEPT !.cache = Pop(@, lru_key),
                                     !.access_times = OrdPop(@, lru_key)])
    ELSE self

\* room is made only once the cache is over max_size
RECURSIVE _evict_lru_when_over(_)
_evict_lru_when_over(self) ==
    IF Cardinality(DOMAIN self.cache) > self.max_size
    THEN LET lru_key == OrdMin(self.access_times)
         IN  _evict_lru_when_over([self EXCEPT !.cache = Pop(@, lru_key),
                                               !.access_times = OrdPop(@, lru_key)])
    ELSE self

RECURSIVE _evict_lru(_)
_evict_lru(self) ==
    IF Cardinality(DOMAIN self.cache) >= self.max_size
    THEN LET lru_key == OrdMin(self.access_times)
         IN  _evict_lru([self EXCEPT !.cache = Pop(@, lru_key),
                                     !.access_times = OrdPop(@, lru_key)])
    ELSE self

\* the expiry is never looked at
get_stale(self, key, t) ==
    IF key \notin DOMAIN self.cache
    THEN [self |-> self, ret |-> None]
    ELSE [self |-> [self EXCEPT !.access_times = OrdPut(@, key, t)],
          ret |-> self.cache[key][1]]

\* a hit leaves the access time as it was
get_untouched(self, key, t) ==
    IF key \notin DOMAIN self.cache
    THEN [self |-> self, ret |-> None]
    ELSE LET value == self.cache[key][1]
             expiry_time == self.cache[key][2]
         IN  IF _is_expired(expiry_time, t)
             THEN [self |-> [self EXCEPT !.cache = Pop(@, key),
                                         !.access_times = OrdPop(@, key)],
                   ret |-> None]
             ELSE [self |-> self, ret |-> value]

get(self, key, t) ==
    IF key \notin DOMAIN self.cache
    THEN [self |-> self, ret |-> None]
    ELSE LET value == self.cache[key][1]
             expiry_time == self.cache[key][2]
         IN  IF _is_expired(expiry_time, t)
             THEN [self |-> [self EXCEPT !.cache = Pop(@, key),
                                         !.access_times = OrdPop(@, key)],
                   ret |-> None]
             ELSE [self |-> [self EXCEPT !.access_times = OrdPut(@, key, t)],
                   ret |-> value]

\* the room is made after the entry is stored
set_then_evict(self, key, value, ttl, t) ==
    LET s1 == _evict_expired(self, t)
        expiry_time == t + ttl * SubSec
    IN  _evict_lru([s1 EXCEPT !.cache = Put(@, key, <<value, expiry_time>>),
                              !.access_times = OrdPut(@, key, t)])

\* room is made for a new key only
set_overwriting_in_place(self, key, value, ttl, t) ==
    LET s1 == _evict_expired(self, t)
        s2 == IF key \in DOMAIN s1.cache THEN s1 ELSE _evict_lru(s1)
        expiry_time == t + ttl * SubSec
    IN  [s2 EXCEPT !.cache = Put(@, key, <<value, expiry_time>>),
                   !.access_times = OrdPut(@, key, t)]

set(self, key, value, ttl, t) ==
    LET s1 == _evict_expired(self, t)
        s2 == _evict_lru(s1)
        expiry_time == t + ttl * SubSec
    IN  [s2 EXCEPT !.cache = Put(@, key, <<value, expiry_time>>),
                   !.access_times = OrdPut(@, key, t)]

delete(self, key) ==
    [self EXCEPT !.cache = Pop(@, key), !.access_times = OrdPop(@, key)]

clear(self) ==
    [self EXCEPT !.cache = EmptyDict, !.access_times = <<>>]

----------------------------------------------------------------------------
(* Python values of the mailbox service                                    *)
(*                                                                         *)
(* A value decoded from the provider's JSON is [type, v]: its Python type  *)
(* and its content.  An object the service builds (an EmailMessage, a list *)
(* of them, True, False, None) is its repr, a string, so that one cache    *)
(* holds them all.  An evaluation ends in a value or in an exception:      *)
(* [exc, v], exc = "" when it did not raise.                               *)

PyStr(v) == [type |-> "str", v |-> v]
PyNumber(v) == [type |-> "int", v |-> v]
Absent == [type |-> "absent", v |-> ""]       \* the key is not in the dict
AddressList(a) == [type |-> "list", v |-> a]  \* [{'address': a}]
DictList == [type |-> "list{}", v |-> ""]     \* [{}]
EmptyList == [type |-> "list0", v |-> ""]     \* []

Val(v) == [exc |-> "", v |-> v]
Raise(e) == [exc |-> e, v |-> ""]

\* the classes an exception is an instance of
Mro(type) ==
    CASE type = "APIError" -> {"APIError", "BotException", "Exception"}
      [] type = "EmailError" -> {"EmailError", "BotException", "Exception"}
      [] type = "ValidationError" -> {"ValidationError", "ValueError", "Exception"}
      [] OTHER -> {type, "Exception"}

\* d.get(key, default)
dict_get(d, key, default) == IF d[key].type = "absent" THEN default ELSE d[key]

\* x[0].get('address', '')
first_address(x) ==
    CASE x.type = "list" -> Val(x.v)
      [] x.type = "list{}" -> Val("")
      [] x.type = "list0" -> Raise("IndexError")
      [] x.type = "str" -> IF x.v = "" THEN Raise("IndexError") ELSE Raise("AttributeError")
      [] OTHER -> Raise("TypeError")

IsoZ == "2024-01-01T12:00:00Z"
IsoOffset == "2024-01-01T12:00:00+00:00"

\* s.replace('Z', '+00:00'): of the strings of the model only IsoZ has a Z
replace_Z(s) == IF s = IsoZ THEN IsoOffset ELSE s

\* datetime.fromisoformat(s)
fromisoformat(s) == IF s \in {IsoOffset} THEN Val(s) ELSE Raise("ValueError")

\* datetime.fromisoformat(x.replace('Z', '+00:00'))
received_of(x) ==
    IF x.type = "str" THEN fromisoformat(replace_Z(x.v)) ELSE Raise("AttributeError")

\* the model built by EmailMessage(...), all of whose fields are strings here
EmailMessage(id, from_address, to_address, subject, received, body) ==
    "EmailMessage(" \o id \o "|" \o from_address \o "|" \o to_address \o "|"
        \o subject \o "|" \o received \o "|" \o body \o ")"

RECURSIVE Join(_)
Join(items) ==
    IF items = <<>> THEN ""
    ELSE IF Len(items) = 1 THEN items[1]
    ELSE items[1] \o ", " \o Join(Tail(items))

\* a list of objects
ListOf(items) == "[" \o Join(items) \o "]"

----------------------------------------------------------------------------
(* MailsacService._make_request *)

Address == "user@mailsac.com"
MessageIds == {"m1", "m2"}
Statuses == {OK, NOT_FOUND, UNAUTHORIZED, TOO_MANY_REQUESTS, FORBIDDEN,
             INTERNAL_SERVER_ERROR, SERVICE_UNAVAILABLE}
Texts == {"", "text"}       \* response.text(): empty or not

NoExc ==
    [type |-> "", service |-> "", status_code |-> <<>>, response_text |-> "",
     error_code |-> "", cause |-> ""]

\* an exception of a class that is not of this repository
Builtin(type) == [NoExc EXCEPT !.type = type]

\* exceptions.py: status_code is Optional[int], <<>> is None
APIError(status_code, response_text, error_code) ==
    [type |-> "APIError", service |-> "Mailsac", status_code |-> status_code,
     response_text |-> response_text, error_code |-> error_code, cause |-> ""]

EmailError(operation, reason, error_code) ==
    [type |-> "EmailError", service |-> operation, status_code |-> <<>>,
     response_text |-> "", error_code |-> error_code, cause |-> reason]

Return(empty) == [do |-> "return", empty |-> empty, delay |-> 0, exc |-> NoExc]
Sleep(delay) == [do |-> "sleep", empty |-> FALSE, delay |-> delay, exc |-> NoExc]
Throw(exc) == [do |-> "raise", empty |-> FALSE, delay |-> 0, exc |-> exc]

\* the delay grows by RETRY_BACKOFF a retry
retry_or_raise_linear(retry_count, exc) ==
    IF retry_count < MAX_RETRIES
    THEN Sleep(RETRY_BACKOFF * retry_count)
    ELSE Throw(exc)

\* the retry of lines 126-138, 142-154 and 173-185
retry_or_raise(retry_count, exc) ==
    IF retry_count < MAX_RETRIES
    THEN Sleep(RETRY_BACKOFF ^ retry_count)
    ELSE Throw(exc)

\* the body of `async with`, once the response is there
_make_request_response(status, response_text, retry_count) ==
    IF status = OK THEN Return(response_text = "")
    ELSE IF status = NOT_FOUND THEN Return(TRUE)
    ELSE IF status = UNAUTHORIZED
    THEN Throw(APIError(<<status>>, response_text, "API_UNAUTHORIZED_ERROR"))
    ELSE IF status = TOO_MANY_REQUESTS
    THEN retry_or_raise(retry_count,
             APIError(<<status>>, response_text, "API_RATE_LIMIT_ERROR"))
    ELSE IF status >= 500
    THEN retry_or_raise(retry_count,
             APIError(<<status>>, response_text, "API_SERVER_ERROR"))
    ELSE Throw(APIError(<<status>>, response_text, "API_CONNECTION_ERROR"))

(* Python matches a raised exception against an `except C` clause by       *)
(* testing C, and the test itself raises TypeError when C does not inherit *)
(* from BaseException.  aiohttp.ClientTimeout is the timeout configuration *)
(* the constructor builds (total=..., connect=10), not an exception.       *)
IsExceptionClass(class) == class # "aiohttp.ClientTimeout"

\* the except clauses of _make_request, for an exception raised in its try
_make_request_except(exc, retry_count) ==
    IF ~IsExceptionClass("aiohttp.ClientTimeout")
    THEN Throw(Builtin("TypeError"))
    ELSE IF "aiohttp.ClientTimeout" \in Mro(exc.type)
    THEN retry_or_raise(retry_count,
             APIError(<<>>, "Request timeout", "API_TIMEOUT_ERROR"))
    ELSE IF "aiohttp.ClientError" \in Mro(exc.type)
    THEN Throw(APIError(<<>>, exc.type, "API_CONNECTION_ERROR"))
    ELSE Throw(exc)

(* An exception leaving a frame of _make_request reaches the frame that    *)
(* called it.  frames lists the enclosing frames, outermost first, each by *)
(* where its recursive call stands: in the "try" (lines 131, 147) or in    *)
(* the "handler" of the timeout clause (line 178), which no except clause  *)
(* guards.  A frame's retry_count is the number of frames around it.       *)
RECURSIVE propagate(_, _)
propagate(exc, frames) ==
    IF frames = <<>> THEN [do |-> "raise", frames |-> <<>>, delay |-> 0, exc |-> exc]
    ELSE LET rest == SubSeq(frames, 1, Len(frames) - 1)
             r == _make_request_except(exc, Len(rest))
         IN  IF frames[Len(frames)] = "handler" THEN propagate(exc, rest)
             ELSE IF r.do = "sleep"
             THEN [do |-> "sleep", frames |-> rest, delay |-> r.delay, exc |-> NoExc]
             ELSE propagate(r.exc, rest)

\* an exception raised in the try of the running frame
raised_in_try(exc, frames) ==
    LET r == _make_request_except(exc, Len(frames))
    IN  IF r.do = "sleep"
        THEN [do |-> "sleep", frames |-> frames, delay |-> r.delay, exc |-> NoExc]
        ELSE propagate(r.exc, frames)

----------------------------------------------------------------------------
(* MailsacService.get_messages, get_message_content, delete_message        *)
(*                                                                         *)
(* A call is a coroutine: it runs from one await of the network (the       *)
(* request, a backoff sleep) to the next with nothing in between.  `co` is *)
(* its state at an await, and each operator below is one such run.         *)

\* what the provider holds: raw message records
Record(id, from, subject, received) ==
    [_id |-> PyStr(id), from |-> from, subject |-> PyStr(subject),
     received |-> received, body |-> PyStr("body of " \o id)]

WellFormed ==
    {Record("m1", AddressList("test@example.com"), "Test Subject", PyStr(IsoZ))}

Malformed ==
    {Record("m1", AddressList("test@example.com"), "Test Subject", Absent),
     Record("m1", Absent, "Test Subject", PyStr(IsoZ)),
     Record("m1", EmptyList, "Test Subject", PyStr(IsoZ)),
     Record("m1", AddressList("test@example.com"), "Test Subject", PyNumber("5"))}

RawRecords == WellFormed \cup Malformed

Inboxes(n) == UNION {[1..m -> RawRecords] : m \in 0..n}

NoResult == [kind |-> "none", value |-> "", exc |-> NoExc, warnings |-> 0]

\* what a request met: the status of the response, or the exception raised
Response(status) == [status |-> <<status>>, failure |-> ""]
Failure(failure) == [status |-> <<>>, failure |-> failure]

\* how the outermost _make_request ended
NoOutcome == [kind |-> "none", empty |-> FALSE, exc |-> NoExc]

\* no call yet
NoCo ==
    [op |-> "", service |-> 0, message_id |-> "", inbox |-> <<>>, pc |-> "idle",
     frames |-> <<>>, sleep_in |-> "", attempts |-> 0, slept |-> <<>>, wake_at |-> 0,
     retried |-> 0, seen |-> <<>>, outcome |-> NoOutcome, n |-> 0, fresh |-> FALSE,
     ended_at |-> 0, result |-> NoResult]

\* __init__
MailsacService == [_session |-> None]

\* _get_session
_get_session(self) == IF self._session = None THEN [self EXCEPT !._session = "open"] ELSE self

messages_key(email_address) == "messages:" \o email_address
content_key(email_address, message_id) == "content:" \o email_address \o ":" \o message_id

cached_email_messages(cache, email_address, t) == get(cache, messages_key(email_address), t)

\* the list is stored only when none is
cache_email_messages_if_absent(cache, email_address, messages, ttl, t) ==
    IF get(cache, messages_key(email_address), t).ret # None
    THEN cache
    ELSE set(cache, messages_key(email_address), messages, ttl, t)

cache_email_messages(cache, email_address, messages, ttl, t) ==
    set(cache, messages_key(email_address), messages, ttl, t)

cached_email_content(cache, email_address, message_id, t) ==
    get(cache, content_key(email_address, message_id), t)

cache_email_content(cache, email_address, message_id, content, ttl, t) ==
    set(cache, content_key(email_address, message_id), content, ttl, t)

\* the call returns value, or raises exc
returns(co, value, warnings) ==
    [co EXCEPT !.pc = "done",
               !.result = [kind |-> "return", value |-> value, exc |-> NoExc,
                           warnings |-> warnings]]

raises(co, exc) ==
    [co EXCEPT !.pc = "done",
               !.result = [kind |-> "raise", value |-> "", exc |-> exc, warnings |-> 0]]

\* session.request(...) is sent
request(co) == [co EXCEPT !.pc = "request", !.attempts = @ + 1]

\* asyncio.sleep(delay), from the try or from the handler of the timeout clause
sleep(co, frames, sleep_in, delay, t) ==
    [co EXCEPT !.pc = "sleep", !.frames = frames, !.sleep_in = sleep_in,
               !.slept = Append(@, delay), !.wake_at = t + delay * SubSec,
               !.retried = @ + 1]

\* EmailMessage(...) of get_messages, its arguments evaluated in order
parse_message(msg_data, email_address) ==
    LET id == dict_get(msg_data, "_id", PyStr("")).v
        from_address == first_address(dict_get(msg_data, "from", DictList))
        subject == dict_get(msg_data, "subject", PyStr("No Subject")).v
        received == received_of(dict_get(msg_data, "received", PyStr("")))
    IN  IF from_address.exc # "" THEN from_address
        ELSE IF received.exc # "" THEN received
        ELSE Val(EmailMessage(id, from_address.v, email_address, subject,
                              received.v, None))

\* the for loop of get_messages: a ValidationError or ValueError is logged
\* and the loop goes on, any other exception leaves it
RECURSIVE parse_loop(_, _, _, _)
parse_loop(response, email_address, messages, warnings) ==
    IF response = <<>>
    THEN [exc |-> "", v |-> ListOf(messages), warnings |-> warnings]
    ELSE LET message == parse_message(Head(response), email_address)
         IN  IF message.exc = ""
             THEN parse_loop(Tail(response), email_address,
                             Append(messages, message.v), warnings)
             ELSE IF Mro(message.exc) \cap {"ValidationError", "ValueError"} # {}
             THEN parse_loop(Tail(response), email_address, messages, warnings + 1)
             ELSE [exc |-> message.exc, v |-> "", warnings |-> warnings]

\* the cache is not asked
get_messages_uncached(cache, co, t) == [cache |-> cache, co |-> request(co)]

\* get_messages up to its first await
get_messages(cache, co, t) ==
    LET cached_messages == cached_email_messages(cache, Address, t)
    IN  IF cached_messages.ret # None
        THEN [cache |-> cached_messages.self,
              co |-> returns(co, cached_messages.ret, 0)]
        ELSE [cache |-> cached_messages.self, co |-> request(co)]

\* the except clauses of get_messages and of get_message_content
fetch_except(co, operation, exc) ==
    IF "APIError" \in Mro(exc.type) THEN raises(co, exc)
    ELSE raises(co, EmailError(operation, exc.type, "EMAIL_FETCH_FAILED"))

\* get_messages from the return of _make_request on
get_messages_response(cache, co, response, t) ==
    LET parsed == parse_loop(response, Address, <<>>, 0)
    IN  IF parsed.exc # ""
        THEN [cache |-> cache, co |-> fetch_except(co, "fetch", Builtin(parsed.exc))]
        ELSE [cache |-> cache_email_messages(cache, Address, parsed.v, MESSAGES_TTL, t),
              co |-> returns(co, parsed.v, parsed.warnings)]

get_message_content(cache, co, t) ==
    LET cached_content == cached_email_content(cache, Address, co.message_id, t)
    IN  IF cached_content.ret # None
        THEN [cache |-> cached_content.self,
              co |-> returns(co, cached_content.ret, 0)]
        ELSE [cache |-> cached_content.self, co |-> request(co)]

\* EmailMessage(...) of get_message_content
parse_content(response, email_address, message_id) ==
    LET from_address == first_address(dict_get(response, "from", DictList))
        subject == dict_get(response, "subject", PyStr("No Subject")).v
        received == received_of(dict_get(response, "received", PyStr("")))
        body == dict_get(response, "body", PyStr("")).v
    IN  IF from_address.exc # "" THEN from_address
        ELSE IF received.exc # "" THEN received
        ELSE Val(EmailMessage(message_id, from_address.v, email_address, subject,
                              received.v, body))

\* an absent message is stored like a message
get_message_content_response_storing_absent(cache, co, response, t) ==
    IF response = <<>>
    THEN [cache |-> cache_email_content(cache, Address, co.message_id, None,
                                        CONTENT_TTL, t),
          co |-> returns(co, None, 0)]
    ELSE LET message == parse_content(response[1], Address, co.message_id)
         IN  IF message.exc # ""
             THEN [cache |-> cache,
                   co |-> fetch_except(co, "get content", Builtin(message.exc))]
             ELSE [cache |-> cache_email_content(cache, Address, co.message_id,
                                                 message.v, CONTENT_TTL, t),
                   co |-> returns(co, message.v, 0)]

\* get_message_content from the return of _make_request on; response is
\* <<>> for an empty dict, <<d>> for the dict d
get_message_content_response(cache, co, response, t) ==
    IF response = <<>> THEN [cache |-> cache, co |-> returns(co, None, 0)]
    ELSE LET message == parse_content(response[1], Address, co.message_id)
         IN  IF message.exc # ""
             THEN [cache |-> cache,
                   co |-> fetch_except(co, "get content", Builtin(message.exc))]
             ELSE [cache |-> cache_email_content(cache, Address, co.message_id,
                                                 message.v, CONTENT_TTL, t),
                   co |-> returns(co, message.v, 0)]

\* delete_message: its first await is the request
delete_message(cache, co, t) == [cache |-> cache, co |-> request(co)]

\* the delete drops what the cache holds
delete_message_response_invalidating(cache, co, response, t) ==
    [cache |-> clear(cache), co |-> returns(co, "True", 0)]

delete_message_response(cache, co, response, t) ==
    [cache |-> cache, co |-> returns(co, "True", 0)]

\* the exception goes on to the caller
delete_message_reraise(co, exc) == raises(co, exc)

\* except Exception of delete_message
delete_message_except(co, exc) ==
    IF "Exception" \in Mro(exc.type) THEN returns(co, "False", 0) ELSE raises(co, exc)

\* delete_all_messages: delete_message on the endpoint of the whole inbox
delete_all_messages(cache, co, t) == [cache |-> cache, co |-> request(co)]

delete_all_messages_response(cache, co, response, t) ==
    [cache |-> cache, co |-> returns(co, "True", 0)]

\* except Exception of delete_all_messages
delete_all_messages_except(co, exc) ==
    IF "Exception" \in Mro(exc.type) THEN returns(co, "False", 0) ELSE raises(co, exc)

\* _make_request returned: the caller goes on
returned(cache, co, empty, t) ==
    LET c == [co EXCEPT !.outcome = [kind |-> "return", empty |-> empty, exc |-> NoExc]]
    IN  CASE c.op = "get_messages" ->
                 get_messages_response(cache, c, IF empty THEN <<>> ELSE c.inbox, t)
          [] c.op = "get_message_content" ->
                 get_message_content_response(cache, c,
                     IF empty \/ c.inbox = <<>> THEN <<>> ELSE <<c.inbox[1]>>, t)
          [] c.op = "delete_all_messages" ->
                 delete_all_messages_response(cache, c, <<>>, t)
          [] OTHER -> delete_message_response(cache, c, <<>>, t)

\* _make_request raised: the caller's except clauses
raised(cache, co, exc) ==
    LET c == [co EXCEPT !.outcome = [kind |-> "raise", empty |-> FALSE, exc |-> exc]]
    IN  CASE c.op = "get_messages" ->
                 [cache |-> cache, co |-> fetch_except(c, "fetch", exc)]
          [] c.op = "get_message_content" ->
                 [cache |-> cache, co |-> fetch_except(c, "get content", exc)]
          [] c.op = "delete_all_messages" ->
                 [cache |-> cache, co |-> delete_all_messages_except(c, exc)]
          [] OTHER -> [cache |-> cache, co |-> delete_message_except(c, exc)]

\* an exception is raised in the try of the running frame of _make_request
thrown(cache, co, exc, t) ==
    LET u == raised_in_try(exc, co.frames)
    IN  IF u.do = "sleep"
        THEN [cache |-> cache, co |-> sleep(co, u.frames, "handler", u.delay, t)]
        ELSE raised(cache, co, u.exc)

\* the call starts and runs to its first await
start(cache, co, op, service, message_id, inbox, t) ==
    LET c == [NoCo EXCEPT !.op = op, !.service = service, !.message_id = message_id,
                          !.inbox = inbox, !.n = co.n + 1]
    IN  CASE op = "get_messages" -> get_messages(cache, c, t)
          [] op = "get_message_content" -> get_message_content(cache, c, t)
          [] op = "delete_all_messages" -> delete_all_messages(cache, c, t)
          [] OTHER -> delete_message(cache, c, t)

\* the response arrives
on_response(cache, co, status, response_text, t) ==
    LET c == [co EXCEPT !.seen = Append(@, Response(status))]
        r == _make_request_response(status, response_text, Len(co.frames))
    IN  IF r.do = "return" THEN returned(cache, c, r.empty, t)
        ELSE IF r.do = "sleep"
        THEN [cache |-> cache,
              co |-> sleep(c, c.frames, "try", r.delay, t)]
        ELSE thrown(cache, c, r.exc, t)

\* session.request raises: a timeout, a connection error
on_failure(cache, co, failure, t) ==
    thrown(cache, [co EXCEPT !.seen = Append(@, Failure(failure))],
           Builtin(failure), t)

\* the sleep ends: _make_request(method, endpoint, retry_count + 1)
on_wake(co) ==
    request([co EXCEPT !.frames = Append(@, co.sleep_in), !.sleep_in = "",
                       !.wake_at = 0])

----------------------------------------------------------------------------
(* The clock *)

Tick(horizon) ==
    /\ now < horizon
    /\ now' = now + 1

----------------------------------------------------------------------------
(* What each part holds while another part is exercised *)

NoSet == [value |-> None, ttl |-> 0, at |-> -1]

NoCall ==
    [n |-> 0, user |-> "", service |-> None, at |-> 0,
     exc |-> "none", propagated |-> "none", limit_type |-> "", retry_after |-> 0]

IdleWindow ==
    /\ limiter = SlidingWindowRateLimiter(1, 1, Keys)
    /\ calls = [k \in Keys |-> <<>>]

IdleBucket ==
    /\ bucket = TokenBucket(1, 1, 0)
    /\ drained_at = -1
    /\ avail = <<>>

IdleLimiter ==
    /\ rate_limiter = RateLimiter(1, 1, 1, 1, 1, 1)
    /\ outcome = NoCall
    /\ first_at = -1

\* no stored key has just been overwritten
NoOverwrite == [key |-> <<>>, full |-> FALSE, lru |-> <<>>]

IdleCache ==
    /\ mem_cache = MemoryCache(1)
    /\ written = [k \in CacheKeys |-> NoSet]
    /\ plain = TRUE
    /\ evictions = <<>>
    /\ overwrite = NoOverwrite

Tasks == {"t1", "t2"}

\* no update is being handled; n counts the updates handled so far, by any task
NoHandler == [kind |-> "", pc |-> "idle", checked |-> "", n |-> 0]

IdleHandlers ==
    /\ handlers = [task \in Tasks |-> NoHandler]
    /\ passes = <<>>

IdleMailsac ==
    /\ services = <<>>
    /\ call = [task \in Tasks |-> NoCo]
    /\ IdleHandlers

notSw == <<tbVars, rlVars, mcVars, msVars, hdVars>>
notTb == <<swVars, rlVars, mcVars, msVars, hdVars>>
notRl == <<swVars, tbVars, mcVars, msVars, hdVars>>
notMc == <<swVars, tbVars, rlVars, msVars, hdVars>>
notMs == <<swVars, tbVars, rlVars, hdVars>>

----------------------------------------------------------------------------
(* A SlidingWindowRateLimiter on its own *)

TotalCalls == Len(calls["k1"]) + Len(calls["k2"])

InitWindow ==
    /\ now = 0
    /\ \E m \in 1..MaxRequests, w \in 1..MaxWindow :
          limiter = SlidingWindowRateLimiter(m, w, Keys)
    /\ calls = [k \in Keys |-> <<>>]
    /\ IdleBucket
    /\ IdleLimiter
    /\ IdleCache
    /\ IdleMailsac

WTick ==
    /\ Tick(MaxTime)
    /\ UNCHANGED <<swVars, notSw>>

IsAllowedCall(k) ==
    /\ TotalCalls < MaxCalls
    /\ LET r == is_allowed(limiter, k, now)
       IN  /\ limiter' = r.self
           /\ calls' = [calls EXCEPT ![k] = Append(@, [t |-> now, ok |-> r.ret])]
    /\ UNCHANGED <<now, notSw>>

GetRemainingCall(k) ==
    /\ limiter' = get_remaining_requests(limiter, k, now).self
    /\ UNCHANGED <<now, calls, notSw>>

NextWindow ==
    \/ WTick
    \/ \E k \in Keys : IsAllowedCall(k)
    \/ \E k \in Keys : GetRemainingCall(k)

SpecWindow == InitWindow /\ [][NextWindow]_vars

----------------------------------------------------------------------------
(* C1: on every key, the is_allowed calls whose timestamps lie in a span   *)
(* shorter than window_seconds hold at most max_requests that returned     *)
(* true; and when all the calls made on a key lie in such a span, the      *)
(* first max_requests of them returned true and the (max_requests+1)-th    *)
(* and every later one returned false.                                     *)
Granted(k, i, j) == {m \in i..j : calls[k][m].ok}

InSpan(k, i, j) ==
    calls[k][j].t - calls[k][i].t < limiter.window_seconds * SubSec

C1_WindowBound ==
    \A k \in Keys :
        /\ \A i, j \in 1..Len(calls[k]) :
              (i <= j /\ InSpan(k, i, j))
                  => Cardinality(Granted(k, i, j)) <= limiter.max_requests
        /\ (Len(calls[k]) >= 1 /\ InSpan(k, 1, Len(calls[k])))
              => \A m \in 1..Len(calls[k]) :
                    calls[k][m].ok <=> (m <= limiter.max_requests)

C1_Witness ==
    \E k \in Keys :
        /\ Len(calls[k]) > limiter.max_requests
        /\ InSpan(k, 1, Len(calls[k]))
        /\ calls[k][Len(calls[k])].t > calls[k][1].t
        /\ ~calls[k][limiter.max_requests + 1].ok

----------------------------------------------------------------------------
(* C20 as stated: in every reachable state, every timestamp stored for     *)
(* every key lies within [now - window_seconds, now].                      *)
StoredTimes(k) == {limiter.requests[k][i] : i \in 1..Len(limiter.requests[k])}

WithinWindow(k) ==
    \A ts \in StoredTimes(k) :
        /\ ts >= now - limiter.window_seconds * SubSec
        /\ ts <= now

C20_AllTimestampsInWindow == \A k \in Keys : WithinWindow(k)

(* C20 amended: no stored timestamp is later than now, and when is_allowed *)
(* or get_remaining_requests has just run on a key, every timestamp stored *)
(* for that key lies within [now - window_seconds, now]; the timestamps of *)
(* a key no call has looked at since stay stored however old they are.     *)
Looked(k) ==
    /\ now' = now
    /\ \/ limiter'.requests[k] # limiter.requests[k]
       \/ calls'[k] # calls[k]

C20_TimestampsInWindowAfterCall ==
    /\ [](\A k \in Keys : \A ts \in StoredTimes(k) : ts <= now)
    /\ [][\A k \in Keys : Looked(k) => WithinWindow(k)']_vars

\* a granted request has left the window and a later call on its key has
\* dropped its timestamp and stored its own
C20_Witness ==
    \E k \in Keys :
        /\ Len(calls[k]) >= 2
        /\ calls[k][1].ok
        /\ calls[k][1].t < now - limiter.window_seconds * SubSec
        /\ calls[k][Len(calls[k])].t = now
        /\ calls[k][Len(calls[k])].ok
        /\ calls[k][1].t \notin StoredTimes(k)
        /\ now \in StoredTimes(k)

----------------------------------------------------------------------------
(* C21: an is_allowed call that returns false leaves the key's timestamps  *)
(* as they were; a call made on a key when the time is later than its      *)
(* oldest stored timestamp + window_seconds returns true; and a call made  *)
(* on a key that holds max_requests timestamps no later than that moment   *)
(* returns false.  So a rejected key is allowed again from that moment on, *)
(* whatever rejected calls were made before it.                            *)
IsAllowedOn(k) == calls'[k] # calls[k]

Returned(k) == calls'[k][Len(calls'[k])].ok

OldestLeaves(k) == Head(limiter.requests[k]) + limiter.window_seconds * SubSec

C21_RejectionEndsWithOldest ==
    [][\A k \in Keys :
          IsAllowedOn(k) =>
              /\ ~Returned(k) => limiter'.requests[k] = limiter.requests[k]
              /\ (limiter.requests[k] # <<>> /\ now > OldestLeaves(k)) => Returned(k)
              /\ (Len(limiter.requests[k]) = limiter.max_requests /\ now <= OldestLeaves(k))
                    => ~Returned(k)]_vars

\* a key was granted, rejected at two later ticks, and granted again once the
\* first grant had left the window, less than a window after the last rejection
C21_Witness ==
    \E k \in Keys :
        /\ Len(calls[k]) = 4
        /\ calls[k][1].ok /\ ~calls[k][2].ok /\ ~calls[k][3].ok /\ calls[k][4].ok
        /\ calls[k][3].t > calls[k][2].t
        /\ calls[k][4].t > calls[k][1].t + limiter.window_seconds * SubSec
        /\ calls[k][4].t - calls[k][3].t < limiter.window_seconds * SubSec

----------------------------------------------------------------------------
(* A TokenBucket on its own *)

InitBucket ==
    /\ now = 0
    /\ \E c \in 1..MaxCapacity, r \in 1..MaxRate : bucket = TokenBucket(c, r, 0)
    /\ drained_at = -1
    /\ avail = <<>>
    /\ IdleWindow
    /\ IdleLimiter
    /\ IdleCache
    /\ IdleMailsac

BTick ==
    /\ Tick(BucketMaxTime)
    /\ UNCHANGED <<tbVars, notTb>>

ConsumeCall(n) ==
    /\ LET r == consume(bucket, n, now)
       IN  /\ bucket' = r.self
           /\ drained_at' = IF r.ret
                            THEN (IF r.self.tokens = 0 THEN now ELSE -1)
                            ELSE drained_at
    /\ avail' = <<>>
    /\ UNCHANGED <<now, notTb>>

AvailableTokensCall ==
    /\ LET r == available_tokens(bucket, now)
       IN  /\ bucket' = r.self
           /\ avail' = <<now, r.ret>>
    /\ UNCHANGED <<now, drained_at, notTb>>

TimeUntilAvailableCall(n) ==
    /\ bucket' = time_until_available(bucket, n, now).self
    /\ UNCHANGED <<now, drained_at, avail, notTb>>

NextBucket ==
    \/ BTick
    \/ \E n \in 1..MaxConsume : ConsumeCall(n)
    \/ AvailableTokensCall
    \/ \E n \in 1..MaxConsume : TimeUntilAvailableCall(n)

SpecBucket == InitBucket /\ [][NextBucket]_vars

----------------------------------------------------------------------------
(* C6: whatever consume, available_tokens and time_until_available calls   *)
(* were made under a clock that never runs backwards, the bucket holds     *)
(* 0 <= tokens <= capacity.                                                *)
C6_TokensInRange ==
    /\ bucket.tokens >= 0
    /\ bucket.tokens <= bucket.capacity * TokUnit

\* a consume has emptied the bucket and time has passed since
C6_Witness ==
    /\ drained_at >= 0
    /\ now > drained_at
    /\ bucket.tokens = 0

(* C7: when a consume has left the bucket with zero tokens and no consume  *)
(* has taken tokens since, an available_tokens() call made at least        *)
(* capacity / refill_rate seconds after that returns capacity; and         *)
(* available_tokens() never returns more than capacity.                    *)
FullBucket(b) == b.capacity * TokUnit   \* a full bucket, in 1/TokUnit token

C7_Recovers ==
    avail # <<>> =>
        /\ avail[2] <= bucket.capacity
        /\ (drained_at >= 0 /\ (avail[1] - drained_at) * bucket.refill_num >= FullBucket(bucket))
              => avail[2] = bucket.capacity

\* the bucket was emptied, some refill was seen part way, and it is full again
C7_Witness ==
    /\ avail # <<>>
    /\ drained_at >= 0
    /\ (avail[1] - drained_at) * bucket.refill_num >= FullBucket(bucket)
    /\ avail[2] = bucket.capacity
    /\ bucket.capacity > 1

----------------------------------------------------------------------------
(* The RateLimiter behind check_rate_limits, with scaled-down limits *)

InitLimiter ==
    /\ now = 0
    /\ rate_limiter = RateLimiter(SmallUserLimit, SmallGlobalLimit, SmallApiLimit,
                                  SmallWindow, SmallBurst, 1)
    /\ outcome = NoCall
    /\ first_at = -1
    /\ IdleWindow
    /\ IdleBucket
    /\ IdleCache
    /\ IdleMailsac

LTick ==
    /\ Tick(LimMaxTime)
    /\ UNCHANGED <<rlVars, notRl>>

CheckRateLimitsCall(user_id, service, fault) ==
    /\ outcome.n < MaxChecks
    /\ \E r \in {check_rate_limits(rate_limiter, user_id, service, now, fault)} :
           /\ rate_limiter' = r.self
           /\ outcome' = [n |-> outcome.n + 1, user |-> user_id, service |-> service,
                          at |-> now, exc |-> r.exc,
                          propagated |-> r.propagated,
                          limit_type |-> r.limit_type,
                          retry_after |-> r.retry_after]
    /\ UNCHANGED <<now, first_at, notRl>>

NextLimiter ==
    \/ LTick
    \/ \E u \in Users, sv \in Services \cup {None}, f \in Faults :
          CheckRateLimitsCall(u, sv, f)

SpecLimiter == InitLimiter /\ [][NextLimiter]_vars

----------------------------------------------------------------------------
(* C3: check_rate_limits asks the global window, the user's window, the    *)
(* user's bucket and, when a service is given, the service's window, in    *)
(* this order; the first that rejects raises RateLimitError with its own   *)
(* limit_type, the layers before it are charged and the layers after it    *)
(* are left as they were.                                                  *)
Full(lim, key, t) ==
    LET q == lim.requests[key]
    IN  Cardinality({i \in 1..Len(q) : q[i] >= t - lim.window_seconds * SubSec})
            >= lim.max_requests

Empty(user_buckets, user_id, t) ==
    /\ user_id \in DOMAIN user_buckets
    /\ LET b == user_buckets[user_id]
       IN  b.tokens + (t - b.last_refill) * b.refill_num < TokUnit

Charged(lim, lim2, key, t) ==
    /\ lim2.requests[key] # <<>>
    /\ lim2.requests[key][Len(lim2.requests[key])] = t
    /\ Len(lim2.requests[key]) =
          1 + Cardinality({i \in 1..Len(lim.requests[key]) :
                              lim.requests[key][i] >= t - lim.window_seconds * SubSec})

FirstRejecting(rl, user_id, service, t) ==
    IF Full(rl.global_limiter, "global", t) THEN "global"
    ELSE IF Full(rl.user_limiter, user_key(user_id), t) THEN "user"
    ELSE IF Empty(rl.user_buckets, user_id, t) THEN "burst"
    ELSE IF service # None /\ Full(rl.api_limiter, api_key(service), t)
         THEN api_key(service)
    ELSE ""

C3_Step ==
    LET o == outcome'
        rl == rate_limiter
        rl2 == rate_limiter'
        first == FirstRejecting(rl, o.user, o.service, now)
    IN  o.exc # "Exception" =>
          /\ o.limit_type = first
          /\ (o.propagated = "RateLimitError") <=> (first # "")
          /\ first = "global" =>
                /\ rl2.user_limiter = rl.user_limiter
                /\ rl2.user_buckets = rl.user_buckets
                /\ rl2.api_limiter = rl.api_limiter
          /\ first = "user" =>
                /\ Charged(rl.global_limiter, rl2.global_limiter, "global", now)
                /\ rl2.user_buckets = rl.user_buckets
                /\ rl2.api_limiter = rl.api_limiter
          /\ first = "burst" =>
                /\ Charged(rl.global_limiter, rl2.global_limiter, "global", now)
                /\ Charged(rl.user_limiter, rl2.user_limiter, user_key(o.user), now)
                /\ rl2.api_limiter = rl.api_limiter
          /\ o.service = None => rl2.api_limiter = rl.api_limiter

C3_ShortCircuit == [][outcome'.n # outcome.n => C3_Step]_vars

\* the user's window rejects a request although the bucket and the service's
\* window, which it never reaches, have been used before
C3_Witness ==
    /\ outcome.limit_type = "user"
    /\ outcome.user \in DOMAIN rate_limiter.user_buckets
    /\ \E sv \in Services : rate_limiter.api_limiter.requests[api_key(sv)] # <<>>

(* C27: a check_rate_limits call that a layer rejects has charged every   *)
(* layer before it: rejected by the user's window, its timestamp is added  *)
(* to the global window; rejected by the bucket, also to the user's        *)
(* window; rejected by the service's window, the user's bucket has one     *)
(* token less as well; and the rejecting layer itself is charged nothing.  *)
WindowCharged(before, after, key, t) ==
    after.requests[key] =
        Append(PopOld(before.requests[key], t - before.window_seconds * SubSec), t)

WindowUncharged(before, after, key, t) ==
    after.requests[key] = PopOld(before.requests[key], t - before.window_seconds * SubSec)

TokenSpent(before, after, user_id, t) ==
    /\ user_id \in DOMAIN after.user_buckets
    /\ after.user_buckets[user_id].tokens =
          _refill(_get_user_bucket(before, user_id, t).user_buckets[user_id], t).tokens
              - TokUnit

C27_EarlierLayersCharged ==
    [][(outcome'.n = outcome.n + 1 /\ outcome'.exc = "RateLimitError") =>
          LET u == outcome'.user
              before == rate_limiter
              after == rate_limiter'
              global == WindowCharged(before.global_limiter, after.global_limiter, "global", now)
              user == WindowCharged(before.user_limiter, after.user_limiter, user_key(u), now)
          IN  CASE outcome'.limit_type = "global" ->
                       WindowUncharged(before.global_limiter, after.global_limiter, "global", now)
                [] outcome'.limit_type = "user" ->
                       /\ global
                       /\ WindowUncharged(before.user_limiter, after.user_limiter, user_key(u), now)
                [] outcome'.limit_type = "burst" ->
                       /\ global
                       /\ user
                [] OTHER ->
                       /\ global
                       /\ user
                       /\ TokenSpent(before, after, u, now)
                       /\ WindowUncharged(before.api_limiter, after.api_limiter,
                                    api_key(outcome'.service), now)]_vars

\* the service's window has just rejected a request that holds the newest
\* timestamp of the global and of its user's window, and its user's bucket
\* is empty
C27_Witness ==
    /\ outcome.exc = "RateLimitError"
    /\ outcome.limit_type \in {api_key(sv) : sv \in Services}
    /\ outcome.at = now
    /\ LET g == rate_limiter.global_limiter.requests["global"]
           w == rate_limiter.user_limiter.requests[user_key(outcome.user)]
       IN  /\ Len(g) >= 2 /\ g[Len(g)] = now /\ g[Len(g) - 1] < now
           /\ w # <<>> /\ w[Len(w)] = now
    /\ rate_limiter.user_buckets[outcome.user].tokens = 0

(* C4: when a layer rejects with retry_after = r, the same check repeated  *)
(* r seconds later, nothing else having been asked in between, is allowed  *)
(* by that layer.                                                          *)
LayerAllows(rl, o, t) ==
    CASE o.limit_type = "global" ->
            is_allowed(rl.global_limiter, "global", t).ret
      [] o.limit_type = "user" ->
            is_allowed(rl.user_limiter, user_key(o.user), t).ret
      [] o.limit_type = "burst" ->
            consume(rl.user_buckets[o.user], 1, t).ret
      [] OTHER ->
            is_allowed(rl.api_limiter, o.limit_type, t).ret

C4_RetryAfterSuffices ==
    (outcome.propagated = "RateLimitError"
        /\ now = outcome.at + outcome.retry_after * SubSec)
            => LayerAllows(rate_limiter, outcome, now)

(* C5: a RateLimitError raised by a layer leaves check_rate_limits, and    *)
(* any other exception raised during the checks stays inside: the call     *)
(* returns normally.                                                       *)
C5_FailOpen ==
    /\ outcome.exc = "RateLimitError" =>
          (outcome.propagated = "RateLimitError" /\ outcome.limit_type # "")
    /\ outcome.exc = "Exception" => outcome.propagated = "none"
    /\ outcome.exc = "none" => outcome.propagated = "none"

\* both cases have happened: an internal error after the global window was charged
C5_Witness ==
    /\ outcome.exc = "Exception"
    /\ outcome.propagated = "none"
    /\ rate_limiter.global_limiter.requests["global"] # <<>>
    /\ Len(rate_limiter.global_limiter.requests["global"]) = outcome.n

----------------------------------------------------------------------------
(* User 42 alone, with the limits of the program *)

InitUser42 ==
    /\ now = 0
    /\ rate_limiter = RateLimiter(USER_RATE_LIMIT, GLOBAL_RATE_LIMIT,
                                  MAX_REQUESTS_PER_MINUTE, WINDOW_SECONDS,
                                  BURST_CAPACITY, 1)
    /\ outcome = NoCall
    /\ first_at = -1
    /\ IdleWindow
    /\ IdleBucket
    /\ IdleCache
    /\ IdleMailsac

U42Tick ==
    /\ now + StepSec * SubSec <= U42MaxSec * SubSec
    /\ now' = now + StepSec * SubSec
    /\ UNCHANGED <<rlVars, notRl>>

CheckUser42Call ==
    /\ outcome.n < USER_RATE_LIMIT + 1
    /\ LET r == check_user_rate_limit(rate_limiter, "42", now)
       IN  /\ rate_limiter' = r.self
           /\ outcome' = [n |-> outcome.n + 1, user |-> "42", service |-> None,
                          at |-> now,
                          exc |-> IF r.raised THEN "RateLimitError" ELSE "none",
                          propagated |-> IF r.raised THEN "RateLimitError" ELSE "none",
                          limit_type |-> r.limit_type,
                          retry_after |-> r.retry_after]
    /\ first_at' = IF first_at < 0 THEN now ELSE first_at
    /\ UNCHANGED <<now, notRl>>

NextUser42 ==
    \/ U42Tick
    \/ CheckUser42Call

SpecUser42 == InitUser42 /\ [][NextUser42]_vars

(* C2: when check_user_rate_limit("42") has been called USER_RATE_LIMIT+1  *)
(* times within 60 seconds, the last of these calls raised RateLimitError  *)
(* with limit_type "user".                                                 *)
C2_ThirtyFirstIsUser ==
    (outcome.n = USER_RATE_LIMIT + 1
        /\ outcome.at - first_at <= WINDOW_SECONDS * SubSec)
            => (outcome.exc = "RateLimitError" /\ outcome.limit_type = "user")

\* the 31st call came later than the first, within the minute, after calls
\* that the bucket had rejected
C2_Witness ==
    /\ outcome.n = USER_RATE_LIMIT + 1
    /\ outcome.at > first_at
    /\ outcome.at - first_at <= WINDOW_SECONDS * SubSec
    /\ outcome.limit_type = "user"
    /\ rate_limiter.user_buckets["42"].tokens < TokUnit

----------------------------------------------------------------------------
(* A MemoryCache *)

InitCache ==
    /\ now = 0
    /\ \E m \in 1..MaxSize : mem_cache = MemoryCache(m)
    /\ written = [k \in CacheKeys |-> NoSet]
    /\ plain = TRUE
    /\ evictions = <<>>
    /\ overwrite = NoOverwrite
    /\ IdleWindow
    /\ IdleBucket
    /\ IdleLimiter
    /\ IdleMailsac

\* the keys a call took out of `before`, apart from `key`, that had expired at t,
\* and those that had not
Removed(before, after, key) == ((DOMAIN before.cache) \ (DOMAIN after.cache)) \ {key}

Swept(before, after, key, t) ==
    {k \in Removed(before, after, key) : t > before.cache[k][2]}

Evicted(before, after, key, t) ==
    {k \in Removed(before, after, key) : ~(t > before.cache[k][2])}

\* the keys set so far, while plain
Inserted == (DOMAIN mem_cache.cache) \cup UNION {evictions[i].keys : i \in 1..Len(evictions)}

\* the cache holds max_size entries and none has expired at t
FullOfLive(self, t) ==
    /\ Cardinality(DOMAIN self.cache) = self.max_size
    /\ \A k \in DOMAIN self.cache : ~(t > self.cache[k][2])

CTick ==
    /\ Tick(CacheMaxTime)
    /\ UNCHANGED <<mcVars, notMc>>

\* the sets whose entry is still stored after a call
Standing(after) == [k \in CacheKeys |-> IF k \in DOMAIN after.cache THEN written[k] ELSE NoSet]

SetCall(key, value, ttl) ==
    \E after \in {set(mem_cache, key, value, ttl, now)} :
        LET lru == Evicted(mem_cache, after, key, now)
            still == /\ plain
                     /\ key \notin Inserted
                     /\ Swept(mem_cache, after, key, now) = {}
        IN  /\ mem_cache' = after
            /\ written' = [Standing(after) EXCEPT
                              ![key] = [value |-> value, ttl |-> ttl, at |-> now]]
            /\ plain' = still
            /\ evictions' = IF ~still THEN <<>>
                             ELSE IF lru = {} THEN evictions
                             ELSE Append(evictions,
                                         [keys |-> lru, before |-> mem_cache.access_times])
            /\ overwrite' = IF key \in DOMAIN mem_cache.cache
                             THEN [key |-> <<key>>,
                                   full |-> FullOfLive(mem_cache, now),
                                   lru |-> <<OrdMin(mem_cache.access_times)>>]
                             ELSE NoOverwrite
            /\ UNCHANGED <<now, notMc>>

GetCall(key) ==
    \E r \in {get(mem_cache, key, now)} :
        LET still == plain /\ DOMAIN r.self.cache = DOMAIN mem_cache.cache
        IN  /\ mem_cache' = r.self
            /\ written' = Standing(r.self)
            /\ plain' = still
            /\ evictions' = IF still THEN evictions ELSE <<>>
            /\ overwrite' = NoOverwrite
            /\ UNCHANGED <<now, notMc>>

DeleteCall(key) ==
    /\ mem_cache' = delete(mem_cache, key)
    /\ written' = [written EXCEPT ![key] = NoSet]
    /\ plain' = FALSE
    /\ evictions' = <<>>
    /\ overwrite' = NoOverwrite
    /\ UNCHANGED <<now, notMc>>

ClearCall ==
    /\ mem_cache' = clear(mem_cache)
    /\ written' = [k \in CacheKeys |-> NoSet]
    /\ plain' = FALSE
    /\ evictions' = <<>>
    /\ overwrite' = NoOverwrite
    /\ UNCHANGED <<now, notMc>>

NextCache ==
    \/ CTick
    \/ \E k \in CacheKeys, v \in Values, ttl \in Ttls : SetCall(k, v, ttl)
    \/ \E k \in CacheKeys : GetCall(k)
    \/ \E k \in CacheKeys : DeleteCall(k)
    \/ ClearCall

SpecCache == InitCache /\ [][NextCache]_vars

(* C8: after set(k, v, ttl), as long as k was not deleted, cleared,        *)
(* overwritten or evicted, get(k) returns v at any time less than ttl      *)
(* seconds after the set, and nothing (None) at any time more than ttl     *)
(* seconds after it.                                                       *)
C8_TtlDecides ==
    \A k \in CacheKeys :
        written[k] # NoSet =>
            LET w == written[k]
                elapsed == now - w.at
            IN  /\ elapsed < w.ttl * SubSec => get(mem_cache, k, now).ret = w.value
                /\ elapsed > w.ttl * SubSec => get(mem_cache, k, now).ret = None

\* one key's ttl has passed while another key, set no later with a longer
\* ttl and read since, is still served
C8_Witness ==
    \E k1, k2 \in DOMAIN mem_cache.cache :
        /\ written[k1] # NoSet
        /\ written[k2] # NoSet
        /\ now - written[k1].at > written[k1].ttl * SubSec
        /\ written[k2].at <= written[k1].at
        /\ now - written[k2].at < written[k2].ttl * SubSec
        /\ AccessOf(mem_cache.access_times, k2) > written[k2].at

(* C9: right after set(k, v, ttl), with no time passed, get(k) returns v,  *)
(* whatever the cache held before and whatever the set evicted.            *)
C9_SetThenGet ==
    \A k \in CacheKeys :
        (written[k] # NoSet /\ written[k].at = now) =>
            get(mem_cache, k, now).ret = written[k].value

\* the set has just evicted another key, which had not expired
C9_Witness ==
    /\ plain
    /\ evictions # <<>>
    /\ \E k \in DOMAIN mem_cache.cache :
          /\ written[k].at = now
          /\ \A i \in 1..Len(evictions[Len(evictions)].before) :
                evictions[Len(evictions)].before[i][1] # k
          /\ Cardinality(DOMAIN mem_cache.cache) = mem_cache.max_size

(* C22 as stated: a get on a stored key that has expired returns None and  *)
(* takes the key out of the store and of the access times, a get on one    *)
(* that has not expired sets its access time to now; and when a full cache *)
(* holds a key k read after its set and accessed later than every other    *)
(* key, the next set of a new key does not evict k.                        *)
AccessKeys(self) == {self.access_times[i][1] : i \in 1..Len(self.access_times)}

GetRefreshesOrPurges ==
    \A k \in DOMAIN mem_cache.cache :
        LET r == get(mem_cache, k, now)
        IN  IF now > mem_cache.cache[k][2]
            THEN /\ r.ret = None
                 /\ k \notin DOMAIN r.self.cache
                 /\ k \notin AccessKeys(r.self)
            ELSE /\ r.ret = mem_cache.cache[k][1]
                 /\ AccessOf(r.self.access_times, k) = now

\* k was read after its set, and later than every other key was set or read
ReadLast(k) ==
    /\ k \in DOMAIN mem_cache.cache
    /\ written[k] # NoSet
    /\ AccessOf(mem_cache.access_times, k) > written[k].at
    /\ \A o \in (DOMAIN mem_cache.cache) \ {k} :
          AccessOf(mem_cache.access_times, o) < AccessOf(mem_cache.access_times, k)

\* this step is the set of a key the cache did not hold, on a full cache
SetOfNewKeyWhenFull(c) ==
    /\ c \notin DOMAIN mem_cache.cache
    /\ c \in DOMAIN mem_cache'.cache
    /\ Cardinality(DOMAIN mem_cache.cache) = mem_cache.max_size

C22_ReadKeySurvives ==
    /\ []GetRefreshesOrPurges
    /\ [][\A k, c \in CacheKeys :
             (ReadLast(k) /\ SetOfNewKeyWhenFull(c))
                 => k \notin Evicted(mem_cache, mem_cache', c, now)]_vars

(* C22 amended: the same, for a cache whose max_size is at least 2; with   *)
(* max_size 1 the key read last is the only key and the set evicts it.     *)
C22_ReadKeySurvivesAmongOthers ==
    /\ []GetRefreshesOrPurges
    /\ [][\A k, c \in CacheKeys :
             (ReadLast(k) /\ SetOfNewKeyWhenFull(c) /\ mem_cache.max_size >= 2)
                 => k \notin Evicted(mem_cache, mem_cache', c, now)]_vars

\* the first key set was read later than every other access, and the set
\* that has just filled the cache over took out another key and kept it
C22_Witness ==
    /\ plain
    /\ evictions # <<>>
    /\ LET e == evictions[Len(evictions)]
       IN  \E k \in DOMAIN mem_cache.cache :
               /\ e.before[1][1] = k
               /\ e.before[1][2] > written[k].at
               /\ \A i \in 2..Len(e.before) : e.before[i][2] < e.before[1][2]
               /\ Len(e.before) = mem_cache.max_size
               /\ e.keys # {}
               /\ \E c \in DOMAIN mem_cache.cache :
                      written[c].at = now /\ c \notin {e.before[i][1] : i \in 1..Len(e.before)}

(* C23: whatever set, get, delete and clear calls were made, the cache     *)
(* stores at most max_size entries, and the access times are those of the  *)
(* stored keys.                                                            *)
C23_SizeBounded ==
    /\ Cardinality(DOMAIN mem_cache.cache) <= mem_cache.max_size
    /\ AccessKeys(mem_cache) = DOMAIN mem_cache.cache
    /\ Len(mem_cache.access_times) = Cardinality(DOMAIN mem_cache.cache)

\* more distinct keys than the largest cache holds have been set, none has
\* expired, and the cache is full
C23_Witness ==
    /\ plain
    /\ mem_cache.max_size = MaxSize
    /\ Cardinality(Inserted) > mem_cache.max_size
    /\ Cardinality(DOMAIN mem_cache.cache) = mem_cache.max_size

(* C29: when set(k, ...) has just been called on a cache that held        *)
(* max_size unexpired entries, k among them, the least recently accessed   *)
(* entry was evicted before the overwrite: if that entry was not k, it is  *)
(* gone and the cache holds max_size - 1 entries; if it was k, the cache   *)
(* still holds max_size entries; k is stored either way.                   *)
C29_OverwriteEvicts ==
    (overwrite # NoOverwrite /\ overwrite.full) =>
        LET k == overwrite.key[1]
            lru == overwrite.lru[1]
        IN  /\ k \in DOMAIN mem_cache.cache
            /\ IF lru = k
               THEN Cardinality(DOMAIN mem_cache.cache) = mem_cache.max_size
               ELSE /\ lru \notin DOMAIN mem_cache.cache
                    /\ Cardinality(DOMAIN mem_cache.cache) = mem_cache.max_size - 1

\* a set of a stored key on a full cache of two live entries has taken the
\* other entry out
C29_Witness ==
    /\ overwrite # NoOverwrite
    /\ overwrite.full
    /\ overwrite.lru # overwrite.key
    /\ mem_cache.max_size = 2
    /\ DOMAIN mem_cache.cache = {overwrite.key[1]}

(* C10: from an empty cache, once max_size + 1 distinct keys have been     *)
(* set and none has expired, _evict_lru has taken out exactly one key, and *)
(* no key present before that set had an older last access (set or get     *)
(* hit); with fewer keys set it has taken out none.                        *)
C10_OneEvictionOfOldest ==
    plain =>
        /\ Cardinality(Inserted) <= mem_cache.max_size => evictions = <<>>
        /\ Cardinality(Inserted) = mem_cache.max_size + 1 =>
              /\ Len(evictions) = 1
              /\ \E k \in CacheKeys :
                    /\ evictions[1].keys = {k}
                    /\ \A i \in 1..Len(evictions[1].before) :
                          AccessOf(evictions[1].before, k) <= evictions[1].before[i][2]

\* the evicted key was not the first one set: a get had refreshed that one
C10_Witness ==
    /\ plain
    /\ Cardinality(Inserted) = mem_cache.max_size + 1
    /\ Len(evictions) = 1
    /\ mem_cache.max_size > 1
    /\ evictions[1].before[1][1] \notin evictions[1].keys

----------------------------------------------------------------------------
(* The mailbox service, called by one caller at a time: _cache scaled down *)
(* to MailCacheSize entries, the provider answering each request with any  *)
(* status, or not at all.                                                  *)

InitMailsac ==
    /\ now = 0
    /\ mem_cache = MemoryCache(MailCacheSize)
    /\ written = [k \in CacheKeys |-> NoSet]
    /\ plain = TRUE
    /\ evictions = <<>>
    /\ overwrite = NoOverwrite
    /\ services = [i \in 1..MaxServices |-> MailsacService]
    /\ call = [task \in Tasks |-> NoCo]
    /\ IdleHandlers
    /\ IdleWindow
    /\ IdleBucket
    /\ IdleLimiter

MTick ==
    /\ now < MailMaxSec * SubSec
    /\ now' = now + MailStepSec * SubSec
    /\ UNCHANGED <<mcVars, msVars, notMs>>

Failures == {"asyncio.TimeoutError", "aiohttp.ClientError"}

\* history: when the call ended
Stamp(co, t) == IF co.pc = "done" THEN [co EXCEPT !.ended_at = t] ELSE co

MailCalls == call["t1"].n + call["t2"].n

BeginCall(task, i, op, message_id, inbox) ==
    /\ call[task].pc \in {"idle", "done"}
    /\ MailCalls < MaxMailCalls
    /\ LET r == start(mem_cache, call[task], op, i, message_id, inbox, now)
       IN  /\ mem_cache' = r.cache
           /\ call' = [call EXCEPT ![task] =
                  Stamp([r.co EXCEPT !.fresh = services[i] = MailsacService], now)]
           /\ services' = [services EXCEPT ![i] =
                  IF r.co.pc = "request" THEN _get_session(@) ELSE @]
    /\ UNCHANGED <<now, written, plain, evictions, overwrite, notMs>>

RespondCall(task, status, response_text) ==
    /\ call[task].pc = "request"
    /\ LET r == on_response(mem_cache, call[task], status, response_text, now)
       IN  /\ mem_cache' = r.cache
           /\ call' = [call EXCEPT ![task] = Stamp(r.co, now)]
    /\ UNCHANGED <<now, services, written, plain, evictions, overwrite, notMs>>

FailCall(task, failure) ==
    /\ call[task].pc = "request"
    /\ LET r == on_failure(mem_cache, call[task], failure, now)
       IN  /\ mem_cache' = r.cache
           /\ call' = [call EXCEPT ![task] = Stamp(r.co, now)]
    /\ UNCHANGED <<now, services, written, plain, evictions, overwrite, notMs>>

WakeCall(task) ==
    /\ call[task].pc = "sleep"
    /\ now >= call[task].wake_at
    /\ call' = [call EXCEPT ![task] = on_wake(@)]
    /\ UNCHANGED <<now, services, mcVars, notMs>>

\* the answers the provider gives here: one status of each branch
MailStatuses == {OK, NOT_FOUND, UNAUTHORIZED, INTERNAL_SERVER_ERROR}

NextMailsac ==
    \/ MTick
    \/ \E i \in 1..Len(services), inbox \in Inboxes(MaxInbox) :
          BeginCall("t1", i, "get_messages", "", inbox)
    \/ \E i \in 1..Len(services), message_id \in MessageIds, inbox \in Inboxes(1) :
          BeginCall("t1", i, "get_message_content", message_id, inbox)
    \/ \E status \in MailStatuses, response_text \in Texts :
          RespondCall("t1", status, response_text)
    \/ FailCall("t1", "asyncio.TimeoutError")
    \/ WakeCall("t1")

SpecMailsac == InitMailsac /\ [][NextMailsac]_vars

----------------------------------------------------------------------------
\* the cache key a read works on, and the ttl it stores with
KeyOf(co) ==
    IF co.op = "get_messages" THEN messages_key(Address)
    ELSE content_key(Address, co.message_id)

TtlOf(co) == IF co.op = "get_messages" THEN MESSAGES_TTL ELSE CONTENT_TTL

Reads == {"get_messages", "get_message_content"}

\* the entry under key is stored and has not expired
Live(key) == key \in DOMAIN mem_cache.cache /\ now <= mem_cache.cache[key][2]

\* this step starts a call of task t1
Begins == call'["t1"].n = call["t1"].n + 1

\* a call that starts on a live entry returns the stored value at once, with
\* no request and no sleep
HitStep ==
    Begins /\ call'["t1"].op \in Reads /\ Live(KeyOf(call'["t1"]))
       => /\ call'["t1"].pc = "done"
          /\ call'["t1"].result.kind = "return"
          /\ call'["t1"].result.value = mem_cache.cache[KeyOf(call'["t1"])][1]
          /\ call'["t1"].attempts = 0
          /\ call'["t1"].slept = <<>>

\* the call before this step fetched from the provider and returned
Fetched(co) ==
    co.pc = "done" /\ co.op \in Reads /\ co.attempts > 0 /\ co.result.kind = "return"

\* this step starts the same read again, within the ttl of the fetch before
Again(co) ==
    /\ Begins
    /\ call'["t1"].op = co.op /\ call'["t1"].message_id = co.message_id
    /\ now <= co.ended_at + TtlOf(co) * SubSec

(* C14: get_messages that finds a live entry under messages:<address>, and *)
(* get_message_content under content:<address>:<id>, returns the stored    *)
(* value with no request and no backoff; so the same read made again       *)
(* within the ttl of a fetch that returned gives the same result with no   *)
(* request.                                                                *)
C14_HitSkipsNetwork ==
    [][/\ HitStep
       /\ Fetched(call["t1"]) /\ Again(call["t1"])
             => /\ call'["t1"].pc = "done"
                /\ call'["t1"].attempts = 0
                /\ call'["t1"].result.kind = "return"
                /\ call'["t1"].result.value = call["t1"].result.value]_vars

\* this step ends a fetch that returns a result
Stores ==
    /\ call["t1"].pc = "request" /\ Fetched(call'["t1"])
    /\ call'["t1"].result.value # None

(* C14, amended: a read that finds a live entry returns the stored value   *)
(* with no request and no backoff; a fetch that returns a result (every    *)
(* get_messages that returns, a get_message_content that returns a         *)
(* message) stores it with its ttl counted from then, so the same read     *)
(* made next within the ttl gives the same result with no request.  A      *)
(* get_message_content that returns None stores nothing.                   *)
C14_HitSkipsNetworkOfStored ==
    [][/\ HitStep
       /\ Stores
             => /\ KeyOf(call["t1"]) \in DOMAIN mem_cache'.cache
                /\ mem_cache'.cache[KeyOf(call["t1"])] =
                      <<call'["t1"].result.value, now + TtlOf(call["t1"]) * SubSec>>
       /\ Fetched(call["t1"]) /\ Again(call["t1"]) /\ call["t1"].result.value # None
             => /\ call'["t1"].pc = "done"
                /\ call'["t1"].attempts = 0
                /\ call'["t1"].result.value = call["t1"].result.value
       /\ call["t1"].pc = "request" /\ Fetched(call'["t1"])
             /\ call'["t1"].result.value = None
             => mem_cache' = mem_cache]_vars

\* the second call of a service found what the first, a fetch, had stored
C14_Witness ==
    LET co == call["t1"]
    IN  /\ co.pc = "done" /\ co.n = 2 /\ co.op = "get_messages"
        /\ co.attempts = 0
        /\ co.result.kind = "return"
        /\ co.result.value # ListOf(<<>>)
        /\ now = co.ended_at /\ now > 0
        /\ Live(KeyOf(co))

\* what the records of an inbox parse to if each is well-formed or skipped
RECURSIVE ParsedWellFormed(_)
ParsedWellFormed(inbox) ==
    IF inbox = <<>> THEN <<>>
    ELSE IF Head(inbox) \in WellFormed
    THEN <<parse_message(Head(inbox), Address).v>> \o ParsedWellFormed(Tail(inbox))
    ELSE ParsedWellFormed(Tail(inbox))

NumMalformed(inbox) == Cardinality({j \in 1..Len(inbox) : inbox[j] \in Malformed})

(* C15: when the provider returns a list of raw records, get_messages      *)
(* returns the well-formed records parsed, in order, and skips and logs    *)
(* each malformed record, whatever is wrong with it: the fetch never fails *)
(* for a bad record.                                                       *)
C15_BadRecordsSkipped ==
    LET co == call["t1"]
    IN  (/\ co.pc = "done" /\ co.op = "get_messages"
         /\ co.outcome.kind = "return" /\ ~co.outcome.empty)
           => /\ co.result.kind = "return"
              /\ co.result.value = ListOf(ParsedWellFormed(co.inbox))
              /\ co.result.warnings = NumMalformed(co.inbox)

(* C18: get_messages called on a newly constructed MailsacService, the     *)
(* provider holding well-formed records only (the case of the unit tests), *)
(* returns exactly those records parsed, and the empty list when the       *)
(* provider holds none, also after another service object fetched the      *)
(* address before.                                                         *)
C18_FreshServiceFetches ==
    LET co == call["t1"]
    IN  (/\ co.pc = "done" /\ co.op = "get_messages" /\ co.fresh
         /\ \A j \in 1..Len(co.inbox) : co.inbox[j] \in WellFormed
         /\ co.seen = <<>> \/ (co.outcome.kind = "return" /\ ~co.outcome.empty))
           => /\ co.result.kind = "return"
              /\ co.result.value = ListOf(ParsedWellFormed(co.inbox))

(* C30: the step that ends a get_messages or get_message_content fetch in  *)
(* an exception, or in None, leaves the cache as it is; an entry is stored *)
(* or replaced only by the step that ends a fetch in a result other than   *)
(* None, under the key of that read; and the same read started next after  *)
(* a fetch that ended in an exception or in None sends a request.          *)
\* this step ends the request of a read
EndsFetch ==
    /\ call["t1"].pc = "request"
    /\ call'["t1"].pc = "done"
    /\ call'["t1"].op \in Reads

NoResultOf(co) == co.result.kind = "raise" \/ co.result.value = None

\* the keys under which this step stores or replaces an entry
Written ==
    {key \in DOMAIN mem_cache'.cache :
        key \notin DOMAIN mem_cache.cache \/ mem_cache'.cache[key] # mem_cache.cache[key]}

C30_CacheWrittenOnResultOnly ==
    [][/\ (EndsFetch /\ NoResultOf(call'["t1"])) => mem_cache' = mem_cache
       /\ Written # {}
             => /\ EndsFetch
                /\ ~NoResultOf(call'["t1"])
                /\ Written = {KeyOf(call["t1"])}
       /\ (/\ call["t1"].pc = "done" /\ call["t1"].op \in Reads
           /\ call["t1"].attempts > 0 /\ NoResultOf(call["t1"])
           /\ Begins
           /\ call'["t1"].op = call["t1"].op
           /\ call'["t1"].message_id = call["t1"].message_id)
             => call'["t1"].pc = "request" /\ call'["t1"].attempts = 1]_vars

\* a get_message_content has ended in an exception after a retry, and the
\* cache holds what an earlier get_messages stored and nothing for its key
C30_Witness ==
    LET co == call["t1"]
    IN  /\ co.pc = "done" /\ co.n = 2 /\ co.op = "get_message_content"
        /\ co.attempts = 2
        /\ co.result.kind = "raise"
        /\ DOMAIN mem_cache.cache = {messages_key(Address)}
        /\ Live(messages_key(Address))

----------------------------------------------------------------------------
(* The service called by two tasks at once: reads and deletes, each        *)
(* request answered 200 or 404.                                            *)

Deletes == {"delete_message", "delete_all_messages"}

\* the inboxes the provider holds here: empty, or one well-formed record
ServiceInboxes == {inbox \in Inboxes(1) : \A i \in 1..Len(inbox) : inbox[i] \in WellFormed}

STick ==
    /\ now < SvcMaxSec * SubSec
    /\ now' = now + SvcStepSec * SubSec
    /\ UNCHANGED <<mcVars, msVars, notMs>>

ServiceCall(task, op, message_id, inbox) ==
    /\ call[task].pc \in {"idle", "done"}
    /\ MailCalls < MaxServiceCalls
    /\ \E r \in {start(mem_cache, call[task], op, 1, message_id, inbox, now)} :
           /\ mem_cache' = r.cache
           /\ call' = [call EXCEPT ![task] =
                  Stamp([r.co EXCEPT !.fresh = services[1] = MailsacService], now)]
           /\ services' = [services EXCEPT ![1] =
                  IF r.co.pc = "request" THEN _get_session(@) ELSE @]
    /\ UNCHANGED <<now, written, plain, evictions, overwrite, notMs>>

NextService ==
    \/ STick
    \/ \E task \in Tasks, inbox \in ServiceInboxes :
          ServiceCall(task, "get_messages", "", inbox)
    \/ \E task \in Tasks, inbox \in ServiceInboxes :
          ServiceCall(task, "get_message_content", "m1", inbox)
    \/ \E task \in Tasks : ServiceCall(task, "delete_message", "m1", <<>>)
    \/ \E task \in Tasks : ServiceCall(task, "delete_all_messages", "", <<>>)
    \/ \E task \in Tasks, status \in {OK, NOT_FOUND} : RespondCall(task, status, "text")

SpecService == InitMailsac /\ [][NextService]_vars

\* this step starts a call of the task
BeginsOf(task) == call'[task].n = call[task].n + 1

\* the last call of the task, a delete that returned True, ended no earlier
\* than the entry under key was stored with ttl
DeletedSince(task, key, ttl) ==
    /\ call[task].pc = "done" /\ call[task].op \in Deletes
    /\ call[task].result.kind = "return" /\ call[task].result.value = "True"
    /\ call[task].ended_at + ttl * SubSec >= mem_cache.cache[key][2]

(* C28: delete_message and delete_all_messages never modify the cache: no  *)
(* step of a delete, its start or its end, changes the cache; so a read    *)
(* started on a live entry after a delete returned True, the delete ended  *)
(* since the entry was stored, returns the stored value with no request.   *)
C28_DeletesLeaveCache ==
    [][\A task \in Tasks :
          /\ (call'[task] # call[task] /\ call'[task].op \in Deletes)
                => mem_cache' = mem_cache
          /\ \A other \in Tasks :
                (/\ BeginsOf(task)
                 /\ call'[task].op \in Reads
                 /\ Live(KeyOf(call'[task]))
                 /\ DeletedSince(other, KeyOf(call'[task]), TtlOf(call'[task])))
                   => /\ call'[task].pc = "done"
                      /\ call'[task].attempts = 0
                      /\ call'[task].result.kind = "return"
                      /\ call'[task].result.value
                            = mem_cache.cache[KeyOf(call'[task])][1]]_vars

\* a get_messages returned the stored list, message m1 in it, with no
\* request, after delete_message of m1 had returned True, later than the
\* list was stored
C28_Witness ==
    \E task \in Tasks, other \in Tasks :
        /\ Live(messages_key(Address))
        /\ call[task].pc = "done" /\ call[task].op = "get_messages"
        /\ call[task].attempts = 0
        /\ call[task].result.kind = "return"
        /\ call[task].result.value # ListOf(<<>>)
        /\ call[task].result.value = mem_cache.cache[messages_key(Address)][1]
        /\ call[other].pc = "done" /\ call[other].op = "delete_message"
        /\ call[other].message_id = "m1"
        /\ call[other].attempts = 1
        /\ call[other].result.value = "True"
        /\ call[other].ended_at <= call[task].ended_at
        /\ call[other].ended_at + MESSAGES_TTL * SubSec
              > mem_cache.cache[messages_key(Address)][2]
        /\ call[task].ended_at = now

\* this step ends the request of a get_messages of the task in a return
StoresList(task) ==
    /\ call[task].pc = "request"
    /\ call'[task].pc = "done"
    /\ call'[task].op = "get_messages"
    /\ call'[task].result.kind = "return"

\* the entry a get_messages that returned at ended_at stores
ListEntry(co) == <<co.result.value, co.ended_at + MESSAGES_TTL * SubSec>>

\* the last call of the task is a get_messages that fetched and returned
FetchedList(co) == Fetched(co) /\ co.op = "get_messages"

\* of two get_messages that fetched, the one that ended later has its list
\* in the cache, if a list is there
LaterListStored ==
    \A task \in Tasks : \A other \in Tasks \ {task} :
        (/\ FetchedList(call[task]) /\ FetchedList(call[other])
         /\ call[task].ended_at > call[other].ended_at
         /\ messages_key(Address) \in DOMAIN mem_cache.cache)
           => mem_cache.cache[messages_key(Address)] = ListEntry(call[task])

(* C26: two get_messages for one address may overlap: one that starts     *)
(* while the other waits for its response, with no live entry, sends its   *)
(* own request; each that returns stores its list over whatever is there,  *)
(* with the ttl counted from that moment; so the cache holds the list of   *)
(* the one that ended last.                                                *)
C26_LastWriteWins ==
    /\ []LaterListStored
    /\ [][\A task \in Tasks : \A other \in Tasks \ {task} :
             /\ (/\ BeginsOf(task)
                 /\ call'[task].op = "get_messages"
                 /\ call[other].pc = "request"
                 /\ call[other].op = "get_messages"
                 /\ ~Live(messages_key(Address)))
                   => call'[task].pc = "request" /\ call'[task].attempts = 1
             /\ StoresList(task)
                   => /\ messages_key(Address) \in DOMAIN mem_cache'.cache
                      /\ mem_cache'.cache[messages_key(Address)]
                            = <<call'[task].result.value, now + MESSAGES_TTL * SubSec>>
                      /\ call'[other] = call[other]]_vars

\* the only two calls made, both get_messages, each sent one request and
\* returned its own list, the second later than the first and within the
\* ttl of the first's entry, which it would have found had it started
\* after the first ended; the cache holds the second's list and its ttl
C26_Witness ==
    \E task \in Tasks : \E other \in Tasks \ {task} :
        /\ call[task].n = 1 /\ call[other].n = 1
        /\ FetchedList(call[task]) /\ FetchedList(call[other])
        /\ call[task].attempts = 1 /\ call[other].attempts = 1
        /\ call[task].result.value # call[other].result.value
        /\ call[task].ended_at > call[other].ended_at
        /\ call[task].ended_at < call[other].ended_at + MESSAGES_TTL * SubSec
        /\ messages_key(Address) \in DOMAIN mem_cache.cache
        /\ mem_cache.cache[messages_key(Address)] = ListEntry(call[task])
        /\ mem_cache.cache[messages_key(Address)] # ListEntry(call[other])

----------------------------------------------------------------------------
(* _make_request and its retries, as delete_message runs it: the provider  *)
(* answers each request with any status, or the request fails.             *)

RTick ==
    /\ now < ReqMaxSec * SubSec
    /\ now' = now + SubSec
    /\ UNCHANGED <<mcVars, msVars, notMs>>

NextRequest ==
    \/ RTick
    \/ \E i \in 1..Len(services), message_id \in MessageIds :
          BeginCall("t1", i, "delete_message", message_id, <<>>)
    \/ \E status \in Statuses, response_text \in Texts :
          RespondCall("t1", status, response_text)
    \/ \E failure \in Failures : FailCall("t1", failure)
    \/ WakeCall("t1")

SpecRequest == InitMailsac /\ [][NextRequest]_vars

\* the responses of the call so far, and the last of them
Seen(task) == call[task].seen
Last(task) == call[task].seen[Len(call[task].seen)]
Done(task) == call[task].pc = "done" /\ call[task].seen # <<>>
Retryable == {Response(TOO_MANY_REQUESTS), Response(INTERNAL_SERVER_ERROR),
              Response(SERVICE_UNAVAILABLE)}

(* C11: with MAX_RETRIES = 3, a _make_request call that meets k retryable  *)
(* responses (429 or >= 500) and then a 200, k <= 3, makes k retries, k+1  *)
(* attempts, and returns; one that meets four 500 responses makes 3        *)
(* retries, 4 attempts, and ends in an APIError of kind API_SERVER_ERROR;  *)
(* and no call makes more than MAX_RETRIES + 1 attempts.                   *)
AllButLast(task, responses) ==
    \A j \in 1..(Len(Seen(task)) - 1) : Seen(task)[j] \in responses

C11_RetryPolicy ==
    LET co == call["t1"]
    IN  /\ co.attempts <= MAX_RETRIES + 1
        /\ Done("t1") /\ Last("t1") = Response(OK) /\ AllButLast("t1", Retryable)
              => /\ co.retried = Len(co.seen) - 1
                 /\ co.attempts = Len(co.seen)
                 /\ co.outcome.kind = "return"
        /\ co.pc # "idle" /\ Len(co.seen) = MAX_RETRIES + 1
              /\ (\A j \in 1..Len(co.seen) : co.seen[j] = Response(INTERNAL_SERVER_ERROR))
              => /\ co.pc = "done"
                 /\ co.retried = MAX_RETRIES
                 /\ co.attempts = MAX_RETRIES + 1
                 /\ co.outcome.kind = "raise"
                 /\ co.outcome.exc.type = "APIError"
                 /\ co.outcome.exc.error_code = "API_SERVER_ERROR"
(* C12: a 401 response ends _make_request at once, with no further       *)
(* request, in an APIError of kind API_UNAUTHORIZED_ERROR, whatever the    *)
(* retry_count it arrives at.                                              *)
C12_UnauthorizedIsTerminal ==
    LET co == call["t1"]
    IN  co.seen # <<>> /\ Last("t1") = Response(UNAUTHORIZED)
           => /\ co.pc = "done"
              /\ co.attempts = Len(co.seen)
              /\ co.outcome.kind = "raise"
              /\ co.outcome.exc.type = "APIError"
              /\ co.outcome.exc.error_code = "API_UNAUTHORIZED_ERROR"

(* C13: a request that times out is retried like a 429 or a 5xx: while     *)
(* retry_count < MAX_RETRIES the call sleeps RETRY_BACKOFF ** retry_count  *)
(* and sends the request again, and a timeout of the last attempt ends it  *)
(* in an APIError of kind API_TIMEOUT_ERROR.                               *)
Timeout == Failure("asyncio.TimeoutError")

C13_TimeoutIsRetried ==
    LET co == call["t1"]
        retry_count == Len(co.seen) - 1
    IN  co.seen # <<>> /\ Last("t1") = Timeout
           => IF retry_count < MAX_RETRIES
              THEN /\ co.pc \in {"sleep", "request"}
                   /\ Len(co.slept) = retry_count + 1
                   /\ co.slept[retry_count + 1] = RETRY_BACKOFF ^ retry_count
              ELSE /\ co.pc = "done"
                   /\ co.outcome.kind = "raise"
                   /\ co.outcome.exc.type = "APIError"
                   /\ co.outcome.exc.error_code = "API_TIMEOUT_ERROR"

(* C24: the outcome of a _make_request call that has ended follows from   *)
(* its last response: a 200 or a 404 returns (a 404 the empty result), a   *)
(* 401 raises API_UNAUTHORIZED_ERROR, a 429 or a status >= 500 raises      *)
(* API_RATE_LIMIT_ERROR or API_SERVER_ERROR and only once MAX_RETRIES      *)
(* retries were made, 429 and 5xx responses counted together, any other    *)
(* status and a connection failure raise API_CONNECTION_ERROR; and every   *)
(* exception raised is an APIError of service Mailsac with the status of   *)
(* the last response, if there was one.                                    *)
RaisedKind(task, error_code) ==
    /\ call[task].outcome.kind = "raise"
    /\ call[task].outcome.exc.type = "APIError"
    /\ call[task].outcome.exc.error_code = error_code

C24_OutcomeByLastResponse ==
    LET co == call["t1"]
    IN  Done("t1") =>
           /\ Last("t1") = Response(OK) => co.outcome.kind = "return"
           /\ Last("t1") = Response(NOT_FOUND)
                 => co.outcome.kind = "return" /\ co.outcome.empty
           /\ Last("t1") = Response(UNAUTHORIZED)
                 => RaisedKind("t1", "API_UNAUTHORIZED_ERROR")
           /\ Last("t1") = Response(TOO_MANY_REQUESTS)
                 => RaisedKind("t1", "API_RATE_LIMIT_ERROR")
           /\ Last("t1") \in {Response(INTERNAL_SERVER_ERROR), Response(SERVICE_UNAVAILABLE)}
                 => RaisedKind("t1", "API_SERVER_ERROR")
           /\ Last("t1") \in Retryable
                 => co.retried = MAX_RETRIES /\ AllButLast("t1", Retryable)
           /\ Last("t1") \in {Response(FORBIDDEN), Failure("aiohttp.ClientError")}
                 => RaisedKind("t1", "API_CONNECTION_ERROR")
           /\ co.outcome.kind = "raise"
                 => /\ co.outcome.exc.type = "APIError"
                    /\ co.outcome.exc.service = "Mailsac"
                    /\ co.outcome.exc.status_code = Last("t1").status
                    /\ co.outcome.exc.error_code # ""

(* C25: the i-th sleep of a _make_request call lasts RETRY_BACKOFF to the  *)
(* power i - 1 seconds, so the delays are 1, 2, 4 and strictly increase;   *)
(* there are at most MAX_RETRIES sleeps; a call that sleeps has made as    *)
(* many attempts as sleeps, and otherwise one attempt more than sleeps, so *)
(* one sleep stands between two attempts and none after the last one; and *)
(* a sleeping call wakes no earlier than its delay after it fell asleep.   *)
C25_BackoffDelays ==
    LET co == call["t1"]
    IN  /\ \A i \in 1..Len(co.slept) : co.slept[i] = RETRY_BACKOFF ^ (i - 1)
        /\ \A i \in 1..(Len(co.slept) - 1) : co.slept[i] < co.slept[i + 1]
        /\ Len(co.slept) <= MAX_RETRIES
        /\ co.retried = Len(co.slept)
        /\ co.pc = "sleep"
              => /\ co.attempts = Len(co.slept)
                 /\ co.wake_at >= co.slept[Len(co.slept)] * SubSec
                 /\ co.wake_at <= now + co.slept[Len(co.slept)] * SubSec
        /\ co.pc \in {"request", "done"} => co.attempts = Len(co.slept) + 1

\* a call has slept 1, 2 and 4 seconds between four attempts that met both
\* 429 and 5xx responses, and has ended
C25_Witness ==
    LET co == call["t1"]
    IN  /\ co.pc = "done"
        /\ co.slept = <<1, RETRY_BACKOFF, RETRY_BACKOFF * RETRY_BACKOFF>>
        /\ co.attempts = MAX_RETRIES + 1
        /\ Response(TOO_MANY_REQUESTS) \in {co.seen[i] : i \in 1..Len(co.seen)}
        /\ Response(SERVICE_UNAVAILABLE) \in {co.seen[i] : i \in 1..Len(co.seen)}
        /\ now >= (1 + RETRY_BACKOFF + RETRY_BACKOFF * RETRY_BACKOFF) * SubSec

(* C19: delete_message always returns: True when its request ended without *)
(* raising, which is when the last response was a 200 or a 404, and False  *)
(* when the request ended in any failure; it never raises.                 *)
C19_DeleteReturnsBool ==
    LET co == call["t1"]
    IN  co.pc = "done" /\ co.op = "delete_message"
           => /\ co.result.kind = "return"
              /\ co.outcome.kind = "return" <=> Last("t1") \in {Response(OK), Response(NOT_FOUND)}
              /\ co.outcome.kind = "return" => co.result.value = "True"
              /\ co.outcome.kind = "raise" => co.result.value = "False"

\* a delete_message that met four server errors has returned False
C19_Witness ==
    LET co == call["t1"]
    IN  /\ co.pc = "done" /\ co.op = "delete_message"
        /\ co.attempts = MAX_RETRIES + 1
        /\ co.outcome.kind = "raise"
        /\ co.result.value = "False"

----------------------------------------------------------------------------
(* The handlers.  A handler runs without suspension from the update to its *)
(* first await: an operator below is that stretch, from the limiter, the   *)
(* cache and the task's last call to what they are when the handler        *)
(* suspends.  checked tells how the handler stands with check_rate_limits: *)
(* "passed", "rejected" (RateLimitError, answered by the except clause) or *)
(* "" when the handler does not call it.                                   *)

HandlerKinds ==
    {"new_email_handler", "inbox_handler", "read_handler", "view_inbox_callback"}

Suspended(rl, cache, co, checked, granted) ==
    [rate_limiter |-> rl, cache |-> cache, co |-> co, checked |-> checked,
     granted |-> granted]

\* the handler awaits message.answer, no service call made
NoService(co) == NoCo

\* the keys whose is_allowed returned True in a check_rate_limits that ended
\* as r tells: the layers before the one that raised
granted_keys(r, user_id, service) ==
    CASE r.limit_type = ""       -> <<"global", user_key(user_id), api_key(service)>>
      [] r.limit_type = "global" -> <<>>
      [] r.limit_type = "user"   -> <<"global">>
      [] OTHER                   -> <<"global", user_key(user_id)>>

\* except RateLimitError / except BotException: await message.answer(e.user_message)
rate_limited(r, cache, co, user_id) ==
    Suspended(r.self, cache, NoService(co), "rejected",
              granted_keys(r, user_id, "mailsac"))

\* new_email_handler after check_rate_limits ended as r tells
new_email_checked(r, cache, co, user_id) ==
    IF r.propagated = "RateLimitError"
    THEN rate_limited(r, cache, co, user_id)
    ELSE Suspended(r.self, cache, NoService(co), "passed",
                   granted_keys(r, user_id, "mailsac"))

new_email_handler(rl, cache, co, user_id, t) ==
    new_email_checked(check_rate_limits(rl, user_id, "mailsac", t, "none"),
                      cache, co, user_id)

\* await mailsac_service.get_messages(...) / get_message_content(...): g is the
\* call at its first await, or ended
awaits(rl, g, checked, granted) == Suspended(rl, g.cache, g.co, checked, granted)

\* inbox_handler after check_rate_limits ended as r tells
inbox_checked(r, cache, co, user_id, inbox, t) ==
    IF r.propagated = "RateLimitError"
    THEN rate_limited(r, cache, co, user_id)
    ELSE awaits(r.self, start(cache, co, "get_messages", 1, "", inbox, t),
                "passed", granted_keys(r, user_id, "mailsac"))

inbox_handler(rl, cache, co, user_id, inbox, t) ==
    inbox_checked(check_rate_limits(rl, user_id, "mailsac", t, "none"),
                  cache, co, user_id, inbox, t)

read_handler(rl, cache, co, user_id, message_id, inbox, t) ==
    awaits(rl, start(cache, co, "get_message_content", 1, message_id, inbox, t),
           "", <<>>)

view_inbox_callback(rl, cache, co, user_id, inbox, t) ==
    awaits(rl, start(cache, co, "get_messages", 1, "", inbox, t), "", <<>>)

----------------------------------------------------------------------------
(* The handlers of two updates, interleaved at their awaits *)

\* the inbox the provider holds here: one well-formed record
HandlerInboxes == {inbox \in Inboxes(1) : Len(inbox) = 1 /\ inbox[1] \in WellFormed}

\* the answers the provider gives here
HandlerStatuses == {OK, INTERNAL_SERVER_ERROR}

InitHandlers ==
    /\ now = 0
    /\ rate_limiter = RateLimiter(SmallUserLimit, SmallGlobalLimit, SmallApiLimit,
                                  SmallWindow, SmallBurst, 1)
    /\ outcome = NoCall
    /\ first_at = -1
    /\ mem_cache = MemoryCache(MailCacheSize)
    /\ written = [k \in CacheKeys |-> NoSet]
    /\ plain = TRUE
    /\ evictions = <<>>
    /\ overwrite = NoOverwrite
    /\ services = <<MailsacService>>
    /\ call = [task \in Tasks |-> NoCo]
    /\ IdleHandlers
    /\ IdleWindow
    /\ IdleBucket

HTick ==
    /\ Tick(HandMaxTime)
    /\ UNCHANGED <<mcVars, msVars, notMs>>

Handled == handlers["t1"].n

\* history: the keys granted, each with the tick of its grant
Grants(keys, t) == [i \in 1..Len(keys) |-> [key |-> keys[i], t |-> t]]

\* the task that takes the next update: tasks have no identity of their own,
\* the first one that is free is named
FreeTasks ==
    IF handlers["t1"].pc = "idle" THEN {"t1"}
    ELSE IF handlers["t2"].pc = "idle" THEN {"t2"}
    ELSE {}

\* an update arrives and the task runs its handler up to the first await
Handle(task, kind, user_id, message_id, inbox) ==
    /\ handlers[task].pc = "idle"
    /\ Handled < MaxHandled
    /\ \E r \in {CASE kind = "new_email_handler" ->
                        new_email_handler(rate_limiter, mem_cache, NoCo, user_id, now)
                  [] kind = "inbox_handler" ->
                        inbox_handler(rate_limiter, mem_cache, NoCo, user_id, inbox, now)
                  [] kind = "read_handler" ->
                        read_handler(rate_limiter, mem_cache, NoCo, user_id, message_id,
                                     inbox, now)
                  [] OTHER ->
                        view_inbox_callback(rate_limiter, mem_cache, NoCo, user_id,
                                            inbox, now)} :
           /\ rate_limiter' = r.rate_limiter
           /\ mem_cache' = r.cache
           /\ call' = [call EXCEPT ![task] = Stamp(r.co, now)]
           /\ services' = [services EXCEPT ![1] =
                  IF r.co.pc = "request" THEN _get_session(@) ELSE @]
           /\ handlers' = [h \in Tasks |->
                  IF h = task
                  THEN [kind |-> kind, pc |-> "busy", checked |-> r.checked,
                        n |-> Handled + 1]
                  ELSE [handlers[h] EXCEPT !.n = Handled + 1]]
           /\ passes' = passes \o Grants(r.granted, now)
    /\ UNCHANGED <<now, swVars, tbVars, outcome, first_at, written, plain, evictions, overwrite>>

\* the service call is over, or none was made, and the answer is sent: the
\* handler returns, and its frame and the call's are gone
Answered(task) ==
    /\ handlers[task].pc = "busy"
    /\ call[task].pc \in {"idle", "done"}
    /\ handlers' = [handlers EXCEPT ![task] = [NoHandler EXCEPT !.n = handlers[task].n]]
    /\ call' = [call EXCEPT ![task] = NoService(@)]
    /\ UNCHANGED <<now, passes, services, mcVars, swVars, tbVars, rlVars>>

NextHandlers ==
    \/ HTick
    \/ \E task \in FreeTasks, user_id \in Users :
          Handle(task, "new_email_handler", user_id, "", <<>>)
    \/ \E task \in FreeTasks, user_id \in Users, inbox \in HandlerInboxes :
          Handle(task, "inbox_handler", user_id, "", inbox)
    \/ \E task \in FreeTasks, user_id \in Users, inbox \in HandlerInboxes :
          Handle(task, "read_handler", user_id, "m1", inbox)
    \/ \E task \in FreeTasks, user_id \in Users, inbox \in HandlerInboxes :
          Handle(task, "view_inbox_callback", user_id, "", inbox)
    \/ \E task \in Tasks, status \in HandlerStatuses : RespondCall(task, status, "text")
    \/ \E task \in Tasks : WakeCall(task)
    \/ \E task \in Tasks : Answered(task)

SpecHandlers == InitHandlers /\ [][NextHandlers]_vars

----------------------------------------------------------------------------
(* C16: every handler execution that reaches a MailboxService read         *)
(* (get_messages or get_message_content) has first passed                  *)
(* check_rate_limits for its user, and a handler execution the rate        *)
(* limiter rejected makes no service call and no request.                  *)
C16_ReadsAreRateLimited ==
    \A task \in Tasks :
        /\ (handlers[task].pc = "busy" /\ call[task].op \in Reads)
              => handlers[task].checked = "passed"
        /\ handlers[task].checked = "rejected"
              => call[task].op = "" /\ call[task].attempts = 0

(* C17: whatever the interleaving of the handlers at their awaits, on      *)
(* every key the grants whose ticks lie in a span of at most               *)
(* window_seconds are at most max_requests of the key's limiter, no deque  *)
(* holds more than max_requests timestamps, and no user's bucket holds     *)
(* less than no token.                                                     *)
LimiterOf(key) ==
    IF key = "global" THEN rate_limiter.global_limiter
    ELSE IF key \in {user_key(u) : u \in Users} THEN rate_limiter.user_limiter
    ELSE rate_limiter.api_limiter

LimiterKeys ==
    {"global"} \cup {user_key(u) : u \in Users} \cup {api_key(sv) : sv \in Services}

GrantsOf(key, i, j) == {m \in i..j : passes[m].key = key}

C17_GrantsBoundedUnderInterleaving ==
    /\ \A key \in LimiterKeys :
          /\ \A i, j \in 1..Len(passes) :
                (i <= j /\ passes[j].t - passes[i].t <= LimiterOf(key).window_seconds * SubSec)
                    => Cardinality(GrantsOf(key, i, j)) <= LimiterOf(key).max_requests
          /\ Len(LimiterOf(key).requests[key]) <= LimiterOf(key).max_requests
    /\ \A u \in DOMAIN rate_limiter.user_buckets :
          rate_limiter.user_buckets[u].tokens >= 0

\* while one handler that passed check_rate_limits sleeps between two requests,
\* another is handled and rejected, a limit being reached and a bucket empty
C17_Witness ==
    \E task, other \in Tasks :
        /\ task # other
        /\ handlers[task].checked = "passed"
        /\ call[task].pc = "sleep"
        /\ handlers[other].pc = "busy"
        /\ handlers[other].checked = "rejected"
        /\ \E key \in LimiterKeys :
              Len(LimiterOf(key).requests[key]) = LimiterOf(key).max_requests
        /\ \E u \in DOMAIN rate_limiter.user_buckets :
              rate_limiter.user_buckets[u].tokens = 0

=============================================================================
